---- MODULE Spec2Model ----
(***************************************************************************)
(* Story Forge: the story-state container (App.tsx), the four editing     *)
(* surfaces (StoryOverview, PlotManager, CharacterManager, ChapterEditor) *)
(* and the content provider (geminiService) as one state machine.         *)
(*                                                                         *)
(* Every event handler is one action.  An async handler is two actions:    *)
(* the part before its await (the click) and the part after it (the        *)
(* resolution of the provider call, with the values its closure captured   *)
(* at the click).  Only the component of the active view is mounted; the   *)
(* state of an unmounted component is its initial state, and the state     *)
(* setters of an unmounted instance do nothing.                            *)
(***************************************************************************)
EXTENDS Integers, Sequences, FiniteSets, Bags, TLC

(* ---------------- bounds of the model ---------------- *)
MaxCalls == 2
MaxToasts == 1
MaxIds == 1
MaxBatchIds == 3
MaxNow == 1
MaxContent == 16
MaxStack == 2
MaxChapters == 2

(* ---------------- values ---------------- *)
None == << >>
Some(v) == << v >>
NoId == 0

TextIn == {"", "a"}

Views == {"overview", "plot", "characters", "chapters"}
AIProvider == {"gemini", "mock"}

FailedOverview == "Failed to generate overview. Please try again."
FailedMainPlot == "Failed to generate main plot. Please try again."
FailedRefinePlot == "Failed to refine main plot. Please try again."
FailedRefineSubplot == "Failed to refine subplot. Please try again."
FailedRefineCharacter == "Failed to refine character. Please try again."
FailedRefineChapter == "[AI failed to refine the chapter. Please try again.]"
FailedContinueChapter == "[AI failed to continue the story. Please try again.]"
ErrorCharacter == [name |-> "Error", description |-> "Failed to generate character.", imagePrompt |-> ""]

(* what the backend answers when it answers: one text per operation *)
GeminiText == "gemini text"
GeminiSubplot == [title |-> "gemini subplot", description |-> "gemini subplot text"]
GeminiSubplots ==
  << GeminiSubplot, [title |-> "gemini subplot 2", description |-> "gemini subplot text 2"] >>
GeminiCharacter == [name |-> "gemini name", description |-> "gemini text", imagePrompt |-> "gemini prompt"]
GeminiImage == "data:image/jpeg;base64,gemini"

(* ---------------- string helpers ---------------- *)
startsWith(s, p) == Len(s) >= Len(p) /\ SubSeq(s, 1, Len(p)) = p
substring(s, from, to) == SubSeq(s, from + 1, IF to < Len(s) THEN to ELSE Len(s))
includes(s, p) == \E k \in 1..(Len(s) - Len(p) + 1) : SubSeq(s, k, k + Len(p) - 1) = p

Whitespace == {" ", "\n", "\t"}
RECURSIVE trimStart(_)
trimStart(s) ==
  IF Len(s) > 0 /\ SubSeq(s, 1, 1) \in Whitespace THEN trimStart(SubSeq(s, 2, Len(s))) ELSE s
RECURSIVE trimEnd(_)
trimEnd(s) ==
  IF Len(s) > 0 /\ SubSeq(s, Len(s), Len(s)) \in Whitespace
  THEN trimEnd(SubSeq(s, 1, Len(s) - 1)) ELSE s
trim(s) == trimEnd(trimStart(s))

(* JavaScript truthiness of a string-or-null and of an object-or-null *)
TruthyText(opt) == opt /= None /\ opt[1] /= ""
TruthyObject(opt) == opt /= None

RECURSIVE Filter(_, _)
Filter(seq, keep) ==
  IF seq = << >> THEN << >>
  ELSE (IF Head(seq).id \in keep THEN << Head(seq) >> ELSE << >>) \o Filter(Tail(seq), keep)
Ids(seq) == { seq[k].id : k \in 1..Len(seq) }

(* ---------------- the mock provider ---------------- *)
mockGenerateStoryOverview(prompt) ==
  "This is a mock overview for: \"" \o prompt \o
  "\". It describes a world of wonder and danger, where our hero must make a difficult choice that will change their destiny forever. The stakes are high, and the clock is ticking."
mockGenerateMainPlot(overview) ==
  "This is a mock main plot based on the overview. It starts with an inciting incident, followed by rising action where the protagonist faces several challenges. The climax is a dramatic confrontation, leading to a satisfying resolution. Overview context: "
  \o substring(overview, 0, 50) \o "..."
mockGenerateSubplots ==
  << [title |-> "Mock Subplot 1: A Secret Past",
      description |-> "A character's hidden history comes to light, complicating their relationships."],
     [title |-> "Mock Subplot 2: The Rival's Plan",
      description |-> "An antagonist works on a parallel scheme to thwart the hero."],
     [title |-> "Mock Subplot 3: A Budding Romance",
      description |-> "Two characters develop feelings for each other amidst the chaos."] >>
MockNames == {"Alistair", "Brielle", "Kaelen", "Seraphina"}
(* variant: the mock character has no image prompt *)
mockGenerateCharacter_NoPrompt(randomName) ==
  [name |-> "Mock " \o randomName,
   description |-> "This is a mock character description for " \o randomName \o
                   ". They are brave, resourceful, and have a mysterious tattoo. Their loyalty is often tested.",
   imagePrompt |-> ""]

mockGenerateCharacter(randomName) ==
  [name |-> "Mock " \o randomName,
   description |-> "This is a mock character description for " \o randomName \o
                   ". They are brave, resourceful, and have a mysterious tattoo. Their loyalty is often tested.",
   imagePrompt |-> "A mock character named " \o randomName \o
                   " with determined eyes and simple traveler's clothes."]
mockGenerateCharacterImage ==
  "data:image/svg+xml;base64,PHN2ZyB4bWxucz0iaHR0cDovL3d3dy53My5vcmcvMjAwMC9zdmciIHdpZHRoPSIyNTYiIGhlaWdodD0iMjU2IiB2aWV3Qm94PSIwIDAgMTAwIDEwMCI+PHJlY3Qgd2lkdGg9IjEwMCIgaGVpZ2h0PSIxMDAiIGZpbGw9IiM0QTU1NjgiPjwvcmVjdD48dGV4dCB4PSI1MCIgeT0iNTUiIGZvbnQtZmFtaWx5PSJzYW5zLXNlcmlmIiBmb250LXNpemU9IjEyIiBmaWxsPSJ3aGl0ZSIgdGV4dC1hbmNob3I9Im1pZGRsZSI+TW9jayBJbWFnZTwvdGV4dD48c3R5bGU+dGV4dHtmb250LXdlaWdodDpib2xkO308L3N0eWxlPjwvc3ZnPg=="
mockContinueWritingChapter ==
  "This is a mock continuation. The hero, pondering their next move after the events of the previous paragraph, decides to venture into the Whispering Woods. They know the path is dangerous, but it is the only way to find the answers they seek."
mockRefineText(text) ==
  IF text = "" THEN "This is a refined suggestion for the empty text provided."
  ELSE "[AI Refinement]: Based on your input, here is a more polished version:\n\n\"" \o text \o
       "\" has been expanded with more evocative language and stronger narrative beats. We've added a layer of intrigue to the central conflict."

(* ---------------- the provider service: the values a call can resolve to ---------------- *)
generateStoryOverview(prompt, provider) ==
  IF provider = "mock" THEN { mockGenerateStoryOverview(prompt) }
  ELSE { GeminiText, FailedOverview }
generateMainPlot(overview, provider) ==
  IF provider = "mock" THEN { mockGenerateMainPlot(overview) }
  ELSE { GeminiText, FailedMainPlot }
generateSubplots(provider) ==
  IF provider = "mock" THEN { mockGenerateSubplots }
  ELSE { GeminiSubplots, << >> }
refineMainPlot(mainPlot, provider) ==
  IF provider = "mock" THEN { mockRefineText(mainPlot) }
  ELSE { GeminiText, FailedRefinePlot }
refineSubplotDescription(description, provider) ==
  IF provider = "mock" THEN { mockRefineText(description) }
  ELSE { GeminiText, FailedRefineSubplot }
generateCharacter(provider) ==
  IF provider = "mock" THEN { mockGenerateCharacter(n) : n \in MockNames }
  ELSE { GeminiCharacter, ErrorCharacter }
generateCharacterImage(prompt, provider) ==
  IF provider = "mock" THEN { mockGenerateCharacterImage }
  ELSE IF prompt = "" THEN { "" }
  ELSE { GeminiImage, "" }
refineCharacterDescription(description, provider) ==
  IF provider = "mock" THEN { mockRefineText(description) }
  ELSE { GeminiText, FailedRefineCharacter }
refineChapterContent(content, provider) ==
  IF provider = "mock" THEN { mockRefineText(content) }
  ELSE { GeminiText, "\n\n" \o FailedRefineChapter }
continueWritingChapter(provider) ==
  IF provider = "mock" THEN { mockContinueWritingChapter }
  ELSE { GeminiText, "\n\n" \o FailedContinueChapter }

(* ---------------- the provider service: how a call settles ---------------- *)
(* what the backend does with a request: it answers as asked, answers with *)
(* a text that is not JSON, answers with an object that lacks what was     *)
(* asked for (no subplots, no images), or the request fails                *)
BackendOutcomes == {"answers", "unparsable", "empty", "rejects"}

(* how a piece of code ends: it returns a value or it throws *)
Returned(v) == [raised |-> FALSE, value |-> << v >>]
Thrown == [raised |-> TRUE, value |-> << >>]

(* what each operation returns from its catch block *)
Sentinel(op) ==
  CASE op = "generateStoryOverview" -> FailedOverview
    [] op = "generateMainPlot" -> FailedMainPlot
    [] op = "generateSubplots" -> << >>
    [] op = "refineMainPlot" -> FailedRefinePlot
    [] op = "refineSubplotDescription" -> FailedRefineSubplot
    [] op = "generateCharacter" -> ErrorCharacter
    [] op = "generateCharacterImage" -> ""
    [] op = "refineCharacterDescription" -> FailedRefineCharacter
    [] op = "refineChapterContent" -> "\n\n" \o FailedRefineChapter
    [] op = "continueWritingChapter" -> "\n\n" \o FailedContinueChapter

(* variant: what the block throws leaves the operation *)
tryCatch_Rethrows(body, sentinel) == body

(* try { body } catch (error) { return sentinel } *)
tryCatch(body, sentinel) == IF body.raised THEN Returned(sentinel) ELSE body

(* the body of the try block of an operation of the Gemini variant *)
geminiBody(op, backend) ==
  IF backend = "rejects" THEN Thrown
  ELSE CASE op = "generateSubplots" ->
              (CASE backend = "unparsable" -> Thrown
                 [] backend = "empty" -> Returned(<< >>)
                 [] OTHER -> Returned(GeminiSubplots))
         [] op = "generateCharacter" ->
              (IF backend = "unparsable" THEN Thrown ELSE Returned(GeminiCharacter))
         [] op = "generateCharacterImage" ->
              (IF backend = "empty" THEN Returned("") ELSE Returned(GeminiImage))
         [] OTHER -> Returned(GeminiText)

(* the body of an operation of the mock variant *)
mockBody(op, input) ==
  CASE op = "generateStoryOverview" -> { Returned(mockGenerateStoryOverview(input)) }
    [] op = "generateMainPlot" -> { Returned(mockGenerateMainPlot(input)) }
    [] op = "generateSubplots" -> { Returned(mockGenerateSubplots) }
    [] op = "generateCharacter" -> { Returned(mockGenerateCharacter(n)) : n \in MockNames }
    [] op = "generateCharacterImage" -> { Returned(mockGenerateCharacterImage) }
    [] op = "continueWritingChapter" -> { Returned(mockContinueWritingChapter) }
    [] OTHER -> { Returned(mockRefineText(input)) }

(* the ways a call of an operation can end *)
Outcomes(op, input, provider) ==
  IF provider = "mock" THEN mockBody(op, input)
  ELSE IF op = "generateCharacterImage" /\ input = "" THEN { Returned("") }
  ELSE { tryCatch(geminiBody(op, b), Sentinel(op)) : b \in BackendOutcomes }

(* ---------------- Button: the disabled attribute it renders ---------------- *)
(* disabled={isLoading} is written before {...props}, so a disabled prop   *)
(* passed by the caller replaces it.                                       *)
Button(isLoading, props) ==
  IF props /= None THEN props[1] ELSE isLoading

(* ---------------- state ---------------- *)
VARIABLES
  story,        \* App: the Story
  activeView,   \* App: the view whose component is mounted
  aiProvider,   \* App: the provider selection
  isSaving,     \* App
  isLoading,    \* App
  picker,       \* the file dialog opened by loadStoryFromLocalFile
  download,     \* the file the browser downloaded last
  toasts,       \* App: the notifications
  now,          \* Date.now()
  so,           \* StoryOverview: isLoading, prompt, suggestion
  pm,           \* PlotManager: loading flags and the four suggestions
  cm,           \* CharacterManager: flags and the two suggestions
  ce,           \* ChapterEditor: selectedChapterId, flags, suggestion
  calls,        \* provider calls that have not resolved, with what their closure captured
  nextId,       \* crypto.randomUUID(): the next identifier it returns
  last          \* the handler that ran last and the branch it took, and the
                \* part of the editor this run exercises (which never changes)

vars == << story, activeView, aiProvider, isSaving, isLoading, picker, download, toasts, now,
           so, pm, cm, ce, calls, nextId, last >>

(* One run exercises one part of the editor: the session, chosen at the   *)
(* start, names the handlers that are used in the run (the first conjunct *)
(* of each handler) and the views the run walks through.                  *)
Sessions ==
  {"app", "overview", "plot", "subplots", "subplot", "character", "description", "portrait",
   "chapters", "append", "file", "toasts", "selection", "reset"}

initialStory ==
  [title |-> "Untitled Story", overview |-> "", mainPlot |-> "",
   subplots |-> << >>, characters |-> << >>, chapters |-> << >>]

StoryOverviewInit == [isLoading |-> FALSE, prompt |-> "", suggestion |-> None]
PlotManagerInit ==
  [plotLoading |-> FALSE, plotRefining |-> FALSE, subplotsLoading |-> FALSE,
   subplotsRefiningId |-> NoId,
   suggestedMainPlot |-> None, suggestedRefinedPlot |-> None,
   suggestedSubplots |-> None, suggestedRefinedSubplot |-> None]
CharacterManagerInit ==
  [isGenerating |-> FALSE, generatingImageId |-> NoId, suggestedCharacter |-> None,
   refiningCharacterId |-> NoId, suggestedDescription |-> None]
ChapterEditorInit ==
  [selectedChapterId |-> NoId, isContinuing |-> FALSE, isRefining |-> FALSE, suggestion |-> None]

(* what a handler leaves in last: the operation (trigger, resolve, accept, *)
(* dismiss), the suggestion state it concerns and the branch it took      *)
session == last.session
Op(op, slot, how) == [op |-> op, slot |-> slot, how |-> how, session |-> session]
(* a handler no property looks at *)
Other == Op("other", "", "")
(* a click that issued a call: did it drop a suggestion that was held? *)
Started(held) == IF held THEN "cleared" ELSE "started"

(* a call in flight: the operation, whether the component instance that   *)
(* issued it is still mounted, the provider and input it was issued with, *)
(* the id of the item (subplot, character, selected chapter) and the      *)
(* character list its closure holds                                       *)
Call(op, provider, input, id, characters) ==
  [op |-> op, live |-> TRUE, provider |-> provider, input |-> input, id |-> id,
   characters |-> characters]

Init ==
  /\ story = initialStory
  /\ activeView = "overview"
  /\ aiProvider = "gemini"
  /\ isSaving = FALSE
  /\ isLoading = FALSE
  /\ picker = "closed"
  /\ download = None
  /\ toasts = << >>
  /\ now = 0
  /\ so = StoryOverviewInit
  /\ pm = PlotManagerInit
  /\ cm = CharacterManagerInit
  /\ ce = ChapterEditorInit
  /\ calls = EmptyBag
  /\ nextId = 1
  /\ last \in { [op |-> "init", slot |-> "", how |-> "", session |-> s] : s \in Sessions }

(* ---------------- App ---------------- *)
addToast(message, type) ==
  Append(toasts, [id |-> now, message |-> message, type |-> type])

(* the run that stacks notifications has room for several of them *)
CanToast == Len(toasts) < (IF session \in {"toasts", "reset"} THEN MaxStack ELSE MaxToasts)
CanCall == BagCardinality(calls) < MaxCalls
(* the run that accepts batches of subplots has identifiers for a list and *)
(* a batch                                                                *)
CanMint(n) ==
  nextId + n - 1 <= (CASE session = "subplots" -> MaxBatchIds
                       [] session = "selection" -> MaxChapters
                       [] OTHER -> MaxIds)

(* a view renders when the lists it maps over are defined; a render that  *)
(* throws takes the whole page down, and nothing can be clicked any more  *)
Renders(view, s) ==
  CASE view = "plot" -> "subplots" \in DOMAIN s
    [] view = "chapters" -> "chapters" \in DOMAIN s
    [] OTHER -> TRUE
Alive == Renders(activeView, story)

Tick ==
  /\ session \in {"app", "toasts"}
  /\ now < MaxNow
  /\ now' = now + 1
  /\ last' = Other
  /\ UNCHANGED << story, activeView, aiProvider, isSaving, isLoading, picker, download, toasts,
                  so, pm, cm, ce, calls, nextId >>

removeToast(id) ==
  /\ Alive
  /\ \E k \in 1..Len(toasts) : toasts[k].id = id
  /\ toasts' = SelectSeq(toasts, LAMBDA t : t.id /= id)
  /\ last' = Other
  /\ UNCHANGED << story, activeView, aiProvider, isSaving, isLoading, picker, download, now,
                  so, pm, cm, ce, calls, nextId >>

(* variant: the effect selects a chapter when none is selected, and does  *)
(* nothing else                                                           *)
useEffectSelection_FirstIfOnly(chapters, selectedChapterId) ==
  IF selectedChapterId = NoId /\ Len(chapters) > 0 THEN chapters[1].id ELSE selectedChapterId

(* the selection effect of ChapterEditor, run after every render *)
useEffectSelection(chapters, selectedChapterId) ==
  LET s1 == IF selectedChapterId = NoId /\ Len(chapters) > 0
            THEN chapters[1].id ELSE selectedChapterId
  IN  IF s1 /= NoId /\ s1 \notin Ids(chapters)
      THEN (IF Len(chapters) > 0 THEN chapters[1].id ELSE NoId)
      ELSE s1

Orphan(cs) ==
  LET dead == { [c EXCEPT !.live = FALSE] : c \in BagToSet(cs) }
  IN  [d \in dead |-> CopiesIn(d, cs) + CopiesIn([d EXCEPT !.live = TRUE], cs)]

(* switching the view unmounts the component of the old view and mounts a *)
(* fresh instance of the new one                                          *)
Mount(view) ==
  /\ so' = StoryOverviewInit
  /\ pm' = PlotManagerInit
  /\ cm' = CharacterManagerInit
  /\ ce' = IF view = "chapters" /\ Renders(view, story')
           THEN [ChapterEditorInit EXCEPT
                   !.selectedChapterId = useEffectSelection(story'.chapters, NoId)]
           ELSE ChapterEditorInit
  /\ calls' = Orphan(calls)

setActiveView(view) ==
  /\ Alive
  /\ view /= activeView
  /\ activeView' = view
  /\ story' = story
  /\ Mount(view)
  /\ last' = Other
  /\ UNCHANGED << aiProvider, isSaving, isLoading, picker, download, toasts, now, nextId >>

(* variant: the switch drops the suggestions of the mounted components *)
handleProviderChange_Resets(provider) ==
  /\ session \in {"app", "overview", "character", "toasts"}
  /\ Alive
  /\ provider /= aiProvider
  /\ CanToast
  /\ aiProvider' = provider
  /\ toasts' = addToast(IF provider = "gemini" THEN "Switched to Gemini AI."
                        ELSE "Switched to Mock AI (Offline).", "success")
  /\ so' = [so EXCEPT !.suggestion = None]
  /\ cm' = [cm EXCEPT !.suggestedCharacter = None]
  /\ last' = Other
  /\ UNCHANGED << story, activeView, isSaving, isLoading, picker, download, now,
                  pm, ce, calls, nextId >>

handleProviderChange(provider) ==
  /\ session \in {"app", "overview", "character", "toasts"}
  /\ Alive
  /\ provider /= aiProvider
  /\ CanToast
  /\ aiProvider' = provider
  /\ toasts' = addToast(IF provider = "gemini" THEN "Switched to Gemini AI."
                        ELSE "Switched to Mock AI (Offline).", "success")
  /\ last' = Other
  /\ UNCHANGED << story, activeView, isSaving, isLoading, picker, download, now,
                  so, pm, cm, ce, calls, nextId >>

(* {...s, field}: the fields of s with the named one set, added if absent *)
Spread(s, field, value) ==
  [k \in DOMAIN s \cup {field} |-> IF k = field THEN value ELSE s[k]]

handleUpdateTitle(title) ==
  /\ session \in {"app", "file"}
  /\ Alive
  /\ story' = Spread(story, "title", title)
  /\ last' = Other
  /\ UNCHANGED << activeView, aiProvider, isSaving, isLoading, picker, download, toasts, now,
                  so, pm, cm, ce, calls, nextId >>

handleUpdateOverview(s, overview) == Spread(s, "overview", overview)
(* variant: setting the main plot empties the overview *)
handleUpdateMainPlot_ClearsOverview(s, mainPlot) ==
  Spread(Spread(s, "mainPlot", mainPlot), "overview", "")
handleUpdateMainPlot(s, mainPlot) == Spread(s, "mainPlot", mainPlot)
handleUpdateSubplots(s, subplots) == Spread(s, "subplots", subplots)
handleUpdateCharacters(s, characters) == Spread(s, "characters", characters)
handleUpdateChapters(s, chapters) == Spread(s, "chapters", chapters)

(* variant: the story is reset whatever window.confirm returns *)
handleDeleteStory_NoConfirm(confirm) ==
  /\ session \in {"app", "reset"}
  /\ Alive
  /\ CanToast
  /\ story' = initialStory
  /\ activeView' = "overview"
  /\ toasts' = addToast("Story deleted.", "success")
  /\ IF activeView /= "overview"
     THEN Mount("overview")
     ELSE UNCHANGED << so, pm, cm, ce, calls >>
  /\ last' = Op("deleteStory", "", IF confirm THEN "confirmed" ELSE "declined")
  /\ UNCHANGED << aiProvider, isSaving, isLoading, picker, download, now, nextId >>

handleDeleteStory(confirm) ==
  /\ session \in {"app", "reset"}
  /\ Alive
  /\ IF confirm
     THEN /\ CanToast
          /\ story' = initialStory
          /\ activeView' = "overview"
          /\ toasts' = addToast("Story deleted.", "success")
          /\ IF activeView /= "overview"
             THEN Mount("overview")
             ELSE UNCHANGED << so, pm, cm, ce, calls >>
     ELSE UNCHANGED << story, activeView, toasts, so, pm, cm, ce, calls >>
  /\ last' = Op("deleteStory", "", IF confirm THEN "confirmed" ELSE "declined")
  /\ UNCHANGED << aiProvider, isSaving, isLoading, picker, download, now, nextId >>

(* ---------------- fileService: save ---------------- *)
(* JSON.stringify and JSON.parse on the values of a Story: a text becomes  *)
(* a quoted string with its quotes, backslashes and line breaks escaped, a *)
(* list becomes the list of its serialised items, a field that is absent   *)
(* stays absent; an identifier is carried as it is                         *)
Char(s, k) == SubSeq(s, k, k)
Rest(s, k) == SubSeq(s, k, Len(s))

RECURSIVE escape(_)
escape(s) ==
  IF s = "" THEN ""
  ELSE (CASE Char(s, 1) = "\"" -> "\\\""
          [] Char(s, 1) = "\\" -> "\\\\"
          [] Char(s, 1) = "\n" -> "\\n"
          [] OTHER -> Char(s, 1)) \o escape(Rest(s, 2))

RECURSIVE unescape(_)
unescape(s) ==
  IF s = "" THEN ""
  ELSE IF Char(s, 1) = "\\" /\ Len(s) >= 2
       THEN (IF Char(s, 2) = "n" THEN "\n" ELSE Char(s, 2)) \o unescape(Rest(s, 3))
       ELSE Char(s, 1) \o unescape(Rest(s, 2))

(* variant: the text is written between quotes as it is *)
quote_Unescaped(s) == "\"" \o s \o "\""

quote(s) == "\"" \o escape(s) \o "\""
unquote(t) == unescape(SubSeq(t, 2, Len(t) - 1))

TextKeys == {"title", "overview", "mainPlot"}

stringifyItem(item) ==
  [f \in DOMAIN item |-> IF f = "id" THEN item[f] ELSE quote(item[f])]
parseItem(text) ==
  [f \in DOMAIN text |-> IF f = "id" THEN text[f] ELSE unquote(text[f])]

JSONstringify(s) ==
  [k \in DOMAIN s |->
     IF k \in TextKeys THEN quote(s[k])
     ELSE [i \in 1..Len(s[k]) |-> stringifyItem(s[k][i])]]
JSONparse(text) ==
  [k \in DOMAIN text |->
     IF k \in TextKeys THEN unquote(text[k])
     ELSE [i \in 1..Len(text[k]) |-> parseItem(text[k][i])]]

(* title.replace(/[^a-z0-9]/gi, '_') *)
Alphanumeric ==
  {"a", "b", "c", "d", "e", "f", "g", "h", "i", "j", "k", "l", "m",
   "n", "o", "p", "q", "r", "s", "t", "u", "v", "w", "x", "y", "z",
   "A", "B", "C", "D", "E", "F", "G", "H", "I", "J", "K", "L", "M",
   "N", "O", "P", "Q", "R", "S", "T", "U", "V", "W", "X", "Y", "Z",
   "0", "1", "2", "3", "4", "5", "6", "7", "8", "9"}
RECURSIVE replaceNonAlphanumeric(_)
replaceNonAlphanumeric(s) ==
  IF s = "" THEN ""
  ELSE (IF Char(s, 1) \in Alphanumeric THEN Char(s, 1) ELSE "_")
       \o replaceNonAlphanumeric(Rest(s, 2))

fileName(title) ==
  LET safe == replaceNonAlphanumeric(title)
  IN  (IF safe /= "" THEN safe ELSE "story_forge_project") \o ".json"

(* the file that a.click() downloads *)
saveStoryToLocalDirectory(s) ==
  [name |-> fileName(s.title), text |-> JSONstringify(s)]

(* the whole handler: saveStoryToLocalDirectory has no await inside, so    *)
(* the promise it returns is settled when handleSave awaits it and the     *)
(* rest of the handler runs before any other event; success is false when  *)
(* a call in the try block (URL.createObjectURL, the DOM calls) throws     *)
handleSave(success) ==
  /\ session \in {"file"}
  /\ Alive
  /\ ~Button(isSaving, None)
  /\ CanToast
  /\ download' = IF success THEN Some(saveStoryToLocalDirectory(story)) ELSE download
  /\ toasts' = IF success THEN addToast("Story saved successfully!", "success")
               ELSE addToast("Failed to save story.", "error")
  /\ isSaving' = FALSE
  /\ last' = Op("save", "", IF success THEN "saved" ELSE "failed")
  /\ UNCHANGED << story, activeView, aiProvider, isLoading, picker, now,
                  so, pm, cm, ce, calls, nextId >>

(* the file picked in the dialog is the one that was downloaded last *)
PickedDownload == [kind |-> "parsed", doc |-> JSONparse(download[1].text)]

(* ---------------- fileService: load ---------------- *)
(* what JSON.parse returns for the files of the model: a saved story, a   *)
(* saved story with an item in each list, a document with the four        *)
(* validated keys only, one without characters, and an empty object       *)
SavedStory == [initialStory EXCEPT !.title = "a", !.overview = "a"]
(* an identifier minted in another run: none that this run mints *)
FileId == 99
FullStory ==
  [title |-> "a", overview |-> "a", mainPlot |-> "a\n\nb",
   subplots |-> << [id |-> FileId, title |-> "New Subplot", description |-> "" ] >>,
   characters |-> << [id |-> FileId, name |-> "\"a\"", description |-> "a", imageUrl |-> "",
                      imagePrompt |-> ""] >>,
   chapters |-> << [id |-> FileId, title |-> "Chapter 1", content |-> "a\\b"] >>]
FourKeys == [title |-> "a", overview |-> "a", mainPlot |-> "", characters |-> << >>]
ThreeKeys == [title |-> "a", overview |-> "a", mainPlot |-> ""]
Documents == { SavedStory, FullStory, FourKeys, ThreeKeys, << >> }

(* what happens after input.click(): no file in the selection, a read     *)
(* error, text that JSON.parse rejects, or a parsed document              *)
Picked ==
  { [kind |-> k, doc |-> << >>] : k \in {"nofile", "readerror", "unparsable"} }
  \cup { [kind |-> "parsed", doc |-> d] : d \in Documents }

(* variant: every parsed document is returned, without the check of its keys *)
loadStoryFromLocalFile_Unvalidated(picked) ==
  IF picked.kind = "parsed" THEN Some(picked.doc) ELSE None

loadStoryFromLocalFile(picked) ==
  IF picked.kind = "parsed"
     /\ {"title", "overview", "mainPlot", "characters"} \subseteq DOMAIN picked.doc
  THEN Some(picked.doc)
  ELSE None

handleLoad ==
  /\ session \in {"app", "file"}
  /\ Alive
  /\ ~Button(isLoading, None)
  /\ isLoading' = TRUE
  /\ picker' = "open"
  /\ last' = Op("load", "", "started")
  /\ UNCHANGED << story, activeView, aiProvider, isSaving, download, toasts, now,
                  so, pm, cm, ce, calls, nextId >>

(* the dialog is closed without a choice: onchange never fires and the    *)
(* promise never settles                                                  *)
PickerCancel ==
  /\ picker = "open"
  /\ picker' = "closed"
  /\ last' = Op("load", "", "cancelled")
  /\ UNCHANGED << story, activeView, aiProvider, isSaving, isLoading, download, toasts, now,
                  so, pm, cm, ce, calls, nextId >>

handleLoadResolve(picked) ==
  /\ picker = "open"
  /\ Alive
  /\ picker' = "closed"
  /\ isLoading' = FALSE
  /\ LET loadedStory == loadStoryFromLocalFile(picked) IN
     IF TruthyObject(loadedStory)
     THEN /\ CanToast
          /\ story' = loadedStory[1]
          /\ toasts' = addToast("Story loaded successfully!", "success")
          /\ ce' = IF activeView = "chapters" /\ Renders(activeView, story')
                   THEN [ce EXCEPT !.selectedChapterId =
                                     useEffectSelection(story'.chapters, ce.selectedChapterId)]
                   ELSE ce
          /\ last' = Op("load", "", "loaded")
     ELSE /\ last' = Op("load", "", picked.kind)
          /\ UNCHANGED << story, toasts, ce >>
  /\ UNCHANGED << activeView, aiProvider, isSaving, download, now, so, pm, cm, calls, nextId >>

(* ---------------- StoryOverview ---------------- *)
SetPrompt(v) ==
  /\ session \in {"overview"}
  /\ activeView = "overview"
  /\ v /= so.prompt
  /\ so' = [so EXCEPT !.prompt = v]
  /\ last' = Other
  /\ UNCHANGED << story, activeView, aiProvider, isSaving, isLoading, picker, download, toasts, now,
                  pm, cm, ce, calls, nextId >>

OverviewOnChange(v) ==
  /\ session \in {"overview", "plot"}
  /\ activeView = "overview"
  /\ v /= story.overview
  /\ story' = handleUpdateOverview(story, v)
  /\ last' = Other
  /\ UNCHANGED << activeView, aiProvider, isSaving, isLoading, picker, download, toasts, now,
                  so, pm, cm, ce, calls, nextId >>

handleGenerate ==
  /\ session \in {"overview"}
  /\ activeView = "overview"
  /\ ~Button(so.isLoading, None)
  /\ IF so.prompt = ""
     THEN /\ CanToast
          /\ toasts' = addToast("Please enter a prompt to generate an overview.", "error")
          /\ last' = Op("trigger", "overview", "precondition")
          /\ UNCHANGED << so, calls >>
     ELSE /\ CanCall
          /\ so' = [so EXCEPT !.isLoading = TRUE, !.suggestion = None]
          /\ calls' = calls (+) SetToBag({ Call("generateStoryOverview", aiProvider, so.prompt, NoId, << >>) })
          /\ last' = Op("trigger", "overview", Started(TruthyText(so.suggestion)))
          /\ UNCHANGED toasts
  /\ UNCHANGED << story, activeView, aiProvider, isSaving, isLoading, picker, download, now, pm, cm, ce, nextId >>

(* variant: the result is written into the Story at resolution *)
handleGenerateResolve_Applies(c, result) ==
  /\ c \in BagToSet(calls)
  /\ c.op = "generateStoryOverview"
  /\ result \in generateStoryOverview(c.input, c.provider)
  /\ CanToast
  /\ calls' = calls (-) SetToBag({ c })
  /\ toasts' = addToast("Suggestion generated successfully!", "success")
  /\ so' = IF c.live THEN [so EXCEPT !.isLoading = FALSE] ELSE so
  /\ story' = handleUpdateOverview(story, result)
  /\ last' = Op("resolve", "overview", "success")
  /\ UNCHANGED << activeView, aiProvider, isSaving, isLoading, picker, download, now, pm, cm, ce, nextId >>

handleGenerateResolve(c, result) ==
  /\ c \in BagToSet(calls)
  /\ c.op = "generateStoryOverview"
  /\ result \in generateStoryOverview(c.input, c.provider)
  /\ CanToast
  /\ calls' = calls (-) SetToBag({ c })
  /\ IF startsWith(result, "Failed")
     THEN /\ toasts' = addToast(result, "error")
          /\ so' = IF c.live THEN [so EXCEPT !.isLoading = FALSE] ELSE so
          /\ last' = Op("resolve", "overview", "sentinel")
     ELSE /\ toasts' = addToast("Suggestion generated successfully!", "success")
          /\ so' = IF c.live THEN [so EXCEPT !.suggestion = Some(result), !.isLoading = FALSE]
                   ELSE so
          /\ last' = Op("resolve", "overview", IF c.live THEN "success" ELSE "unmounted")
  /\ UNCHANGED << story, activeView, aiProvider, isSaving, isLoading, picker, download, now, pm, cm, ce, nextId >>

(* The accept handlers are taken as they are written, guard included: the *)
(* ELSE branch is the call the if (suggestion) guard is there for, with   *)
(* nothing to accept.                                                     *)
(* variant: the accept handler without its if (suggestion) guard *)
handleAcceptSuggestion_Unguarded ==
  /\ session \in {"overview"}
  /\ activeView = "overview"
  /\ CanToast
  /\ story' = handleUpdateOverview(story, IF so.suggestion = None THEN "" ELSE so.suggestion[1])
  /\ so' = [so EXCEPT !.suggestion = None]
  /\ toasts' = addToast("Overview updated.", "success")
  /\ last' = Op("accept", "overview", "applied")
  /\ UNCHANGED << activeView, aiProvider, isSaving, isLoading, picker, download, now, pm, cm, ce, calls, nextId >>

handleAcceptSuggestion ==
  /\ session \in {"overview"}
  /\ activeView = "overview"
  /\ IF TruthyText(so.suggestion)
     THEN /\ CanToast
          /\ story' = handleUpdateOverview(story, so.suggestion[1])
          /\ so' = [so EXCEPT !.suggestion = None]
          /\ toasts' = addToast("Overview updated.", "success")
          /\ last' = Op("accept", "overview", "applied")
     ELSE /\ last' = Op("accept", "overview", "noop")
          /\ UNCHANGED << story, so, toasts >>
  /\ UNCHANGED << activeView, aiProvider, isSaving, isLoading, picker, download, now, pm, cm, ce, calls, nextId >>

OverviewOnDismiss ==
  /\ session \in {"overview"}
  /\ activeView = "overview"
  /\ TruthyText(so.suggestion)
  /\ so' = [so EXCEPT !.suggestion = None]
  /\ last' = Op("dismiss", "overview", "")
  /\ UNCHANGED << story, activeView, aiProvider, isSaving, isLoading, picker, download, toasts, now,
                  pm, cm, ce, calls, nextId >>

(* ---------------- PlotManager: main plot ---------------- *)
MainPlotOnChange(v) ==
  /\ session \in {"plot", "subplots"}
  /\ activeView = "plot"
  /\ v /= story.mainPlot
  /\ story' = handleUpdateMainPlot(story, v)
  /\ last' = Other
  /\ UNCHANGED << activeView, aiProvider, isSaving, isLoading, picker, download, toasts, now,
                  so, pm, cm, ce, calls, nextId >>

(* variant: the click handler without its if (!overview) check *)
handleGeneratePlot_Unchecked ==
  /\ session \in {"plot"}
  /\ activeView = "plot"
  /\ ~Button(pm.plotLoading, None)
  /\ CanCall
  /\ pm' = [pm EXCEPT !.plotLoading = TRUE, !.suggestedMainPlot = None,
                      !.suggestedRefinedPlot = None]
  /\ calls' = calls (+) SetToBag({ Call("generateMainPlot", aiProvider, story.overview, NoId, << >>) })
  /\ last' = Op("trigger", "mainPlot", "started")
  /\ UNCHANGED << story, activeView, aiProvider, isSaving, isLoading, picker, download, toasts, now,
                  so, cm, ce, nextId >>

handleGeneratePlot ==
  /\ session \in {"plot"}
  /\ activeView = "plot"
  /\ ~Button(pm.plotLoading, None)
  /\ IF story.overview = ""
     THEN /\ CanToast
          /\ toasts' = addToast("Please write an overview first to generate a plot.", "error")
          /\ last' = Op("trigger", "mainPlot", "precondition")
          /\ UNCHANGED << pm, calls >>
     ELSE /\ CanCall
          /\ pm' = [pm EXCEPT !.plotLoading = TRUE, !.suggestedMainPlot = None,
                              !.suggestedRefinedPlot = None]
          /\ calls' = calls (+) SetToBag({ Call("generateMainPlot", aiProvider, story.overview, NoId, << >>) })
          /\ last' = Op("trigger", "mainPlot",
                        Started(TruthyText(pm.suggestedMainPlot) \/ TruthyText(pm.suggestedRefinedPlot)))
          /\ UNCHANGED toasts
  /\ UNCHANGED << story, activeView, aiProvider, isSaving, isLoading, picker, download, now, so, cm, ce, nextId >>

(* no inspection of the result: whatever the call returns is installed *)
handleGeneratePlotResolve(c, result) ==
  /\ c \in BagToSet(calls)
  /\ c.op = "generateMainPlot"
  /\ result \in generateMainPlot(c.input, c.provider)
  /\ CanToast
  /\ calls' = calls (-) SetToBag({ c })
  /\ pm' = IF c.live THEN [pm EXCEPT !.suggestedMainPlot = Some(result), !.plotLoading = FALSE]
           ELSE pm
  /\ toasts' = addToast("Main plot suggestion generated!", "success")
  /\ last' = Op("resolve", "mainPlot",
                IF ~c.live THEN "unmounted"
                ELSE IF startsWith(result, "Failed") THEN "sentinel" ELSE "success")
  /\ UNCHANGED << story, activeView, aiProvider, isSaving, isLoading, picker, download, now, so, cm, ce, nextId >>

(* variant: the accepted plot is added to the text instead of replacing it *)
handleAcceptPlot_Appends ==
  /\ session \in {"plot"}
  /\ activeView = "plot"
  /\ IF TruthyText(pm.suggestedMainPlot)
     THEN /\ CanToast
          /\ story' = handleUpdateMainPlot(story, story.mainPlot \o pm.suggestedMainPlot[1])
          /\ pm' = [pm EXCEPT !.suggestedMainPlot = None]
          /\ toasts' = addToast("Main plot updated.", "success")
          /\ last' = Op("accept", "mainPlot", "applied")
     ELSE /\ last' = Op("accept", "mainPlot", "noop")
          /\ UNCHANGED << story, pm, toasts >>
  /\ UNCHANGED << activeView, aiProvider, isSaving, isLoading, picker, download, now, so, cm, ce, calls, nextId >>

handleAcceptPlot ==
  /\ session \in {"plot"}
  /\ activeView = "plot"
  /\ IF TruthyText(pm.suggestedMainPlot)
     THEN /\ CanToast
          /\ story' = handleUpdateMainPlot(story, pm.suggestedMainPlot[1])
          /\ pm' = [pm EXCEPT !.suggestedMainPlot = None]
          /\ toasts' = addToast("Main plot updated.", "success")
          /\ last' = Op("accept", "mainPlot", "applied")
     ELSE /\ last' = Op("accept", "mainPlot", "noop")
          /\ UNCHANGED << story, pm, toasts >>
  /\ UNCHANGED << activeView, aiProvider, isSaving, isLoading, picker, download, now, so, cm, ce, calls, nextId >>

handleRefinePlot ==
  /\ session \in {"plot"}
  /\ activeView = "plot"
  /\ ~Button(pm.plotRefining, Some(story.mainPlot = ""))
  /\ IF story.mainPlot = ""
     THEN /\ CanToast
          /\ toasts' = addToast("The main plot is empty. There's nothing to refine.", "error")
          /\ last' = Op("trigger", "refinedPlot", "precondition")
          /\ UNCHANGED << pm, calls >>
     ELSE /\ CanCall
          /\ pm' = [pm EXCEPT !.plotRefining = TRUE, !.suggestedRefinedPlot = None,
                              !.suggestedMainPlot = None]
          /\ calls' = calls (+) SetToBag({ Call("refineMainPlot", aiProvider, story.mainPlot, NoId, << >>) })
          /\ last' = Op("trigger", "refinedPlot",
                        Started(TruthyText(pm.suggestedMainPlot) \/ TruthyText(pm.suggestedRefinedPlot)))
          /\ UNCHANGED toasts
  /\ UNCHANGED << story, activeView, aiProvider, isSaving, isLoading, picker, download, now, so, cm, ce, nextId >>

handleRefinePlotResolve(c, result) ==
  /\ c \in BagToSet(calls)
  /\ c.op = "refineMainPlot"
  /\ result \in refineMainPlot(c.input, c.provider)
  /\ CanToast
  /\ calls' = calls (-) SetToBag({ c })
  /\ pm' = IF c.live THEN [pm EXCEPT !.suggestedRefinedPlot = Some(result), !.plotRefining = FALSE]
           ELSE pm
  /\ toasts' = addToast("Main plot refinement suggestion generated!", "success")
  /\ last' = Op("resolve", "refinedPlot",
                IF ~c.live THEN "unmounted"
                ELSE IF startsWith(result, "Failed") THEN "sentinel" ELSE "success")
  /\ UNCHANGED << story, activeView, aiProvider, isSaving, isLoading, picker, download, now, so, cm, ce, nextId >>

handleAcceptRefinedPlot ==
  /\ session \in {"plot"}
  /\ activeView = "plot"
  /\ IF TruthyText(pm.suggestedRefinedPlot)
     THEN /\ CanToast
          /\ story' = handleUpdateMainPlot(story, pm.suggestedRefinedPlot[1])
          /\ pm' = [pm EXCEPT !.suggestedRefinedPlot = None]
          /\ toasts' = addToast("Main plot updated with refinement.", "success")
          /\ last' = Op("accept", "refinedPlot", "applied")
     ELSE /\ last' = Op("accept", "refinedPlot", "noop")
          /\ UNCHANGED << story, pm, toasts >>
  /\ UNCHANGED << activeView, aiProvider, isSaving, isLoading, picker, download, now, so, cm, ce, calls, nextId >>

MainPlotOnDismiss ==
  /\ session \in {"plot"}
  /\ activeView = "plot"
  /\ TruthyText(pm.suggestedMainPlot)
  /\ pm' = [pm EXCEPT !.suggestedMainPlot = None]
  /\ last' = Op("dismiss", "mainPlot", "")
  /\ UNCHANGED << story, activeView, aiProvider, isSaving, isLoading, picker, download, toasts, now,
                  so, cm, ce, calls, nextId >>

RefinedPlotOnDismiss ==
  /\ session \in {"plot"}
  /\ activeView = "plot"
  /\ TruthyText(pm.suggestedRefinedPlot)
  /\ pm' = [pm EXCEPT !.suggestedRefinedPlot = None]
  /\ last' = Op("dismiss", "refinedPlot", "")
  /\ UNCHANGED << story, activeView, aiProvider, isSaving, isLoading, picker, download, toasts, now,
                  so, cm, ce, calls, nextId >>

(* ---------------- PlotManager: subplots ---------------- *)
UpdateField(list, id, field, value) ==
  [k \in 1..Len(list) |-> IF list[k].id = id THEN [list[k] EXCEPT ![field] = value] ELSE list[k]]

(* variant: one identifier for the whole batch *)
WithIds_OneId(items, first) ==
  [k \in 1..Len(items) |->
     [id |-> first, title |-> items[k].title, description |-> items[k].description]]

(* suggestedSubplots.map(sp => ({...sp, id: crypto.randomUUID()})) *)
WithIds(items, first) ==
  [k \in 1..Len(items) |->
     [id |-> first + k - 1, title |-> items[k].title, description |-> items[k].description]]

handleGenerateSubplots ==
  /\ session \in {"subplots"}
  /\ activeView = "plot"
  /\ ~Button(pm.subplotsLoading, None)
  /\ IF story.mainPlot = ""
     THEN /\ CanToast
          /\ toasts' = addToast("Please write a main plot first to generate subplots.", "error")
          /\ last' = Op("trigger", "subplots", "precondition")
          /\ UNCHANGED << pm, calls >>
     ELSE /\ CanCall
          /\ pm' = [pm EXCEPT !.subplotsLoading = TRUE, !.suggestedSubplots = None]
          /\ calls' = calls (+) SetToBag({ Call("generateSubplots", aiProvider, story.mainPlot, NoId, << >>) })
          /\ last' = Op("trigger", "subplots", Started(TruthyObject(pm.suggestedSubplots)))
          /\ UNCHANGED toasts
  /\ UNCHANGED << story, activeView, aiProvider, isSaving, isLoading, picker, download, now, so, cm, ce, nextId >>

handleGenerateSubplotsResolve(c, result) ==
  /\ c \in BagToSet(calls)
  /\ c.op = "generateSubplots"
  /\ result \in generateSubplots(c.provider)
  /\ CanToast
  /\ calls' = calls (-) SetToBag({ c })
  /\ pm' = IF c.live THEN [pm EXCEPT !.suggestedSubplots = Some(result), !.subplotsLoading = FALSE]
           ELSE pm
  /\ toasts' = addToast("Subplot suggestions generated successfully!", "success")
  /\ last' = Op("resolve", "subplots",
                IF ~c.live THEN "unmounted"
                ELSE IF result = << >> THEN "sentinel" ELSE "success")
  /\ UNCHANGED << story, activeView, aiProvider, isSaving, isLoading, picker, download, now, so, cm, ce, nextId >>

handleAcceptSubplots ==
  /\ session \in {"subplots"}
  /\ activeView = "plot"
  /\ IF TruthyObject(pm.suggestedSubplots)
     THEN /\ CanToast
          /\ CanMint(Len(pm.suggestedSubplots[1]))
          /\ story' = handleUpdateSubplots(story,
                        story.subplots \o WithIds(pm.suggestedSubplots[1], nextId))
          /\ nextId' = nextId + Len(pm.suggestedSubplots[1])
          /\ pm' = [pm EXCEPT !.suggestedSubplots = None]
          /\ toasts' = addToast("Subplots added.", "success")
          /\ last' = Op("accept", "subplots", "applied")
     ELSE /\ last' = Op("accept", "subplots", "noop")
          /\ UNCHANGED << story, pm, toasts, nextId >>
  /\ UNCHANGED << activeView, aiProvider, isSaving, isLoading, picker, download, now, so, cm, ce, calls >>

SubplotsOnDismiss ==
  /\ session \in {"subplots"}
  /\ activeView = "plot"
  /\ TruthyObject(pm.suggestedSubplots)
  /\ pm' = [pm EXCEPT !.suggestedSubplots = None]
  /\ last' = Op("dismiss", "subplots", "")
  /\ UNCHANGED << story, activeView, aiProvider, isSaving, isLoading, picker, download, toasts, now,
                  so, cm, ce, calls, nextId >>

handleRefineSubplot(k) ==
  /\ session \in {"subplot"}
  /\ activeView = "plot"
  /\ k \in 1..Len(story.subplots)
  /\ LET subplot == story.subplots[k] IN
     /\ ~Button(pm.subplotsRefiningId = subplot.id, Some(subplot.description = ""))
     /\ IF subplot.description = ""
        THEN /\ CanToast
             /\ toasts' = addToast("Subplot description is empty.", "error")
             /\ last' = Op("trigger", "refinedSubplot", "precondition")
             /\ UNCHANGED << pm, calls >>
        ELSE /\ CanCall
             /\ pm' = [pm EXCEPT !.subplotsRefiningId = subplot.id,
                                 !.suggestedRefinedSubplot = None]
             /\ calls' = calls (+) SetToBag({ Call("refineSubplotDescription", aiProvider,
                                            subplot.description, subplot.id, << >>) })
             /\ last' = Op("trigger", "refinedSubplot",
                           Started(TruthyObject(pm.suggestedRefinedSubplot)))
             /\ UNCHANGED toasts
  /\ UNCHANGED << story, activeView, aiProvider, isSaving, isLoading, picker, download, now, so, cm, ce, nextId >>

handleRefineSubplotResolve(c, result) ==
  /\ c \in BagToSet(calls)
  /\ c.op = "refineSubplotDescription"
  /\ result \in refineSubplotDescription(c.input, c.provider)
  /\ CanToast
  /\ calls' = calls (-) SetToBag({ c })
  /\ pm' = IF c.live
           THEN [pm EXCEPT !.suggestedRefinedSubplot = Some([id |-> c.id, description |-> result]),
                           !.subplotsRefiningId = NoId]
           ELSE pm
  /\ toasts' = addToast("Subplot refinement generated!", "success")
  /\ last' = Op("resolve", "refinedSubplot",
                IF ~c.live THEN "unmounted"
                ELSE IF startsWith(result, "Failed") THEN "sentinel" ELSE "success")
  /\ UNCHANGED << story, activeView, aiProvider, isSaving, isLoading, picker, download, now, so, cm, ce, nextId >>

handleUpdateSubplot(id, field, value) ==
  handleUpdateSubplots(story, UpdateField(story.subplots, id, field, value))

(* variant: the accept writes the refined text over the title as well *)
handleAcceptRefinedSubplot_TitleToo ==
  /\ session \in {"subplot"}
  /\ activeView = "plot"
  /\ IF TruthyObject(pm.suggestedRefinedSubplot)
     THEN /\ CanToast
          /\ story' = handleUpdateSubplots(story,
                        UpdateField(UpdateField(story.subplots, pm.suggestedRefinedSubplot[1].id,
                                                "description",
                                                pm.suggestedRefinedSubplot[1].description),
                                    pm.suggestedRefinedSubplot[1].id, "title",
                                    pm.suggestedRefinedSubplot[1].description))
          /\ pm' = [pm EXCEPT !.suggestedRefinedSubplot = None]
          /\ toasts' = addToast("Subplot updated.", "success")
          /\ last' = Op("accept", "refinedSubplot", "applied")
     ELSE /\ last' = Op("accept", "refinedSubplot", "noop")
          /\ UNCHANGED << story, pm, toasts >>
  /\ UNCHANGED << activeView, aiProvider, isSaving, isLoading, picker, download, now, so, cm, ce, calls, nextId >>

handleAcceptRefinedSubplot ==
  /\ session \in {"subplot"}
  /\ activeView = "plot"
  /\ IF TruthyObject(pm.suggestedRefinedSubplot)
     THEN /\ CanToast
          /\ story' = handleUpdateSubplot(pm.suggestedRefinedSubplot[1].id, "description",
                                          pm.suggestedRefinedSubplot[1].description)
          /\ pm' = [pm EXCEPT !.suggestedRefinedSubplot = None]
          /\ toasts' = addToast("Subplot updated.", "success")
          /\ last' = Op("accept", "refinedSubplot", "applied")
     ELSE /\ last' = Op("accept", "refinedSubplot", "noop")
          /\ UNCHANGED << story, pm, toasts >>
  /\ UNCHANGED << activeView, aiProvider, isSaving, isLoading, picker, download, now, so, cm, ce, calls, nextId >>

RefinedSubplotOnDismiss ==
  /\ session \in {"subplot"}
  /\ activeView = "plot"
  /\ TruthyObject(pm.suggestedRefinedSubplot)
  /\ pm' = [pm EXCEPT !.suggestedRefinedSubplot = None]
  /\ last' = Op("dismiss", "refinedSubplot", "")
  /\ UNCHANGED << story, activeView, aiProvider, isSaving, isLoading, picker, download, toasts, now,
                  so, cm, ce, calls, nextId >>

handleAddSubplot ==
  /\ session \in {"subplots", "subplot"}
  /\ activeView = "plot"
  /\ CanMint(1)
  /\ story' = handleUpdateSubplots(story,
                Append(story.subplots, [id |-> nextId, title |-> "New Subplot", description |-> ""]))
  /\ nextId' = nextId + 1
  /\ last' = Other
  /\ UNCHANGED << activeView, aiProvider, isSaving, isLoading, picker, download, toasts, now,
                  so, pm, cm, ce, calls >>

SubplotOnChange(k, field, value) ==
  /\ session \in {"subplot"}
  /\ activeView = "plot"
  /\ k \in 1..Len(story.subplots)
  /\ story.subplots[k][field] /= value
  /\ story' = handleUpdateSubplot(story.subplots[k].id, field, value)
  /\ last' = Other
  /\ UNCHANGED << activeView, aiProvider, isSaving, isLoading, picker, download, toasts, now,
                  so, pm, cm, ce, calls, nextId >>

handleDeleteSubplot(k) ==
  /\ session \in {"subplots", "subplot"}
  /\ activeView = "plot"
  /\ k \in 1..Len(story.subplots)
  /\ story' = handleUpdateSubplots(story,
                Filter(story.subplots, Ids(story.subplots) \ { story.subplots[k].id }))
  /\ last' = Other
  /\ UNCHANGED << activeView, aiProvider, isSaving, isLoading, picker, download, toasts, now,
                  so, pm, cm, ce, calls, nextId >>

(* ---------------- CharacterManager ---------------- *)
storyContext ==
  "Title: " \o story.title \o "\nOverview: " \o story.overview \o "\nPlot: " \o story.mainPlot

handleAddCharacter ==
  /\ session \in {"character", "description", "portrait", "reset"}
  /\ activeView = "characters"
  /\ CanMint(1)
  /\ story' = handleUpdateCharacters(story,
                Append(story.characters,
                       [id |-> nextId, name |-> "New Character", description |-> "",
                        imageUrl |-> "", imagePrompt |-> ""]))
  /\ nextId' = nextId + 1
  /\ last' = Other
  /\ UNCHANGED << activeView, aiProvider, isSaving, isLoading, picker, download, toasts, now,
                  so, pm, cm, ce, calls >>

handleGenerateCharacter ==
  /\ session \in {"character"}
  /\ activeView = "characters"
  /\ ~Button(cm.isGenerating, None)
  /\ CanCall
  /\ cm' = [cm EXCEPT !.isGenerating = TRUE, !.suggestedCharacter = None]
  /\ calls' = calls (+) SetToBag({ Call("generateCharacter", aiProvider, storyContext, NoId, << >>) })
  /\ last' = Op("trigger", "character", Started(TruthyObject(cm.suggestedCharacter)))
  /\ UNCHANGED << story, activeView, aiProvider, isSaving, isLoading, picker, download, toasts, now,
                  so, pm, ce, nextId >>

(* variant: the call is answered by the provider selected when it resolves *)
handleGenerateCharacterResolve_Retargets(c, newCharData) ==
  /\ c \in BagToSet(calls)
  /\ c.op = "generateCharacter"
  /\ newCharData \in generateCharacter(aiProvider)
  /\ CanToast
  /\ calls' = calls (-) SetToBag({ c })
  /\ IF newCharData.name /= "Error"
     THEN /\ cm' = IF c.live THEN [cm EXCEPT !.suggestedCharacter = Some(newCharData),
                                             !.isGenerating = FALSE]
                   ELSE cm
          /\ toasts' = addToast("Character suggestion generated!", "success")
          /\ last' = Op("resolve", "character", IF c.live THEN "success" ELSE "unmounted")
     ELSE /\ cm' = IF c.live THEN [cm EXCEPT !.isGenerating = FALSE] ELSE cm
          /\ toasts' = addToast("Failed to generate character.", "error")
          /\ last' = Op("resolve", "character", "sentinel")
  /\ UNCHANGED << story, activeView, aiProvider, isSaving, isLoading, picker, download, now, so, pm, ce, nextId >>

(* variant: the flag is cleared on the success path only *)
handleGenerateCharacterResolve_NoFinally(c, newCharData) ==
  /\ c \in BagToSet(calls)
  /\ c.op = "generateCharacter"
  /\ newCharData \in generateCharacter(c.provider)
  /\ CanToast
  /\ calls' = calls (-) SetToBag({ c })
  /\ IF newCharData.name /= "Error"
     THEN /\ cm' = IF c.live THEN [cm EXCEPT !.suggestedCharacter = Some(newCharData),
                                             !.isGenerating = FALSE]
                   ELSE cm
          /\ toasts' = addToast("Character suggestion generated!", "success")
          /\ last' = Op("resolve", "character", IF c.live THEN "success" ELSE "unmounted")
     ELSE /\ cm' = cm
          /\ toasts' = addToast("Failed to generate character.", "error")
          /\ last' = Op("resolve", "character", "sentinel")
  /\ UNCHANGED << story, activeView, aiProvider, isSaving, isLoading, picker, download, now, so, pm, ce, nextId >>

handleGenerateCharacterResolve(c, newCharData) ==
  /\ c \in BagToSet(calls)
  /\ c.op = "generateCharacter"
  /\ newCharData \in generateCharacter(c.provider)
  /\ CanToast
  /\ calls' = calls (-) SetToBag({ c })
  /\ IF newCharData.name /= "Error"
     THEN /\ cm' = IF c.live THEN [cm EXCEPT !.suggestedCharacter = Some(newCharData),
                                             !.isGenerating = FALSE]
                   ELSE cm
          /\ toasts' = addToast("Character suggestion generated!", "success")
          /\ last' = Op("resolve", "character", IF c.live THEN "success" ELSE "unmounted")
     ELSE /\ cm' = IF c.live THEN [cm EXCEPT !.isGenerating = FALSE] ELSE cm
          /\ toasts' = addToast("Failed to generate character.", "error")
          /\ last' = Op("resolve", "character", "sentinel")
  /\ UNCHANGED << story, activeView, aiProvider, isSaving, isLoading, picker, download, now, so, pm, ce, nextId >>

handleAcceptCharacter ==
  /\ session \in {"character"}
  /\ activeView = "characters"
  /\ IF TruthyObject(cm.suggestedCharacter)
     THEN /\ CanToast
          /\ CanMint(1)
          /\ story' = handleUpdateCharacters(story,
                        Append(story.characters,
                               [id |-> nextId, name |-> cm.suggestedCharacter[1].name,
                                description |-> cm.suggestedCharacter[1].description,
                                imageUrl |-> "",
                                imagePrompt |-> cm.suggestedCharacter[1].imagePrompt]))
          /\ nextId' = nextId + 1
          /\ cm' = [cm EXCEPT !.suggestedCharacter = None]
          /\ toasts' = addToast("Character added to story.", "success")
          /\ last' = Op("accept", "character", "applied")
     ELSE /\ last' = Op("accept", "character", "noop")
          /\ UNCHANGED << story, cm, toasts, nextId >>
  /\ UNCHANGED << activeView, aiProvider, isSaving, isLoading, picker, download, now, so, pm, ce, calls >>

CharacterOnDismiss ==
  /\ session \in {"character"}
  /\ activeView = "characters"
  /\ TruthyObject(cm.suggestedCharacter)
  /\ cm' = [cm EXCEPT !.suggestedCharacter = None]
  /\ last' = Op("dismiss", "character", "")
  /\ UNCHANGED << story, activeView, aiProvider, isSaving, isLoading, picker, download, toasts, now,
                  so, pm, ce, calls, nextId >>

handleRefineDescription(k) ==
  /\ session \in {"description"}
  /\ activeView = "characters"
  /\ k \in 1..Len(story.characters)
  /\ LET character == story.characters[k] IN
     /\ ~Button(cm.refiningCharacterId = character.id, Some(character.description = ""))
     /\ IF character.description = ""
        THEN /\ CanToast
             /\ toasts' = addToast("Character description is empty.", "error")
             /\ last' = Op("trigger", "description", "precondition")
             /\ UNCHANGED << cm, calls >>
        ELSE /\ CanCall
             /\ cm' = [cm EXCEPT !.refiningCharacterId = character.id,
                                 !.suggestedDescription = None]
             /\ calls' = calls (+) SetToBag({ Call("refineCharacterDescription", aiProvider,
                                            character.description, character.id, << >>) })
             /\ last' = Op("trigger", "description",
                           Started(TruthyObject(cm.suggestedDescription)))
             /\ UNCHANGED toasts
  /\ UNCHANGED << story, activeView, aiProvider, isSaving, isLoading, picker, download, now, so, pm, ce, nextId >>

handleRefineDescriptionResolve(c, result) ==
  /\ c \in BagToSet(calls)
  /\ c.op = "refineCharacterDescription"
  /\ result \in refineCharacterDescription(c.input, c.provider)
  /\ CanToast
  /\ calls' = calls (-) SetToBag({ c })
  /\ IF ~startsWith(result, "Failed")
     THEN /\ cm' = IF c.live
                   THEN [cm EXCEPT !.suggestedDescription =
                                      Some([id |-> c.id, description |-> result]),
                                   !.refiningCharacterId = NoId]
                   ELSE cm
          /\ toasts' = addToast("Description refinement generated!", "success")
          /\ last' = Op("resolve", "description", IF c.live THEN "success" ELSE "unmounted")
     ELSE /\ cm' = IF c.live THEN [cm EXCEPT !.refiningCharacterId = NoId] ELSE cm
          /\ toasts' = addToast(result, "error")
          /\ last' = Op("resolve", "description", "sentinel")
  /\ UNCHANGED << story, activeView, aiProvider, isSaving, isLoading, picker, download, now, so, pm, ce, nextId >>

(* characters is the list of the render the handler was created in *)
handleUpdateCharacter(characters, id, field, value) ==
  handleUpdateCharacters(story, UpdateField(characters, id, field, value))

handleAcceptRefinedDescription ==
  /\ session \in {"description"}
  /\ activeView = "characters"
  /\ IF TruthyObject(cm.suggestedDescription)
     THEN /\ CanToast
          /\ story' = handleUpdateCharacter(story.characters, cm.suggestedDescription[1].id,
                                            "description", cm.suggestedDescription[1].description)
          /\ cm' = [cm EXCEPT !.suggestedDescription = None]
          /\ toasts' = addToast("Character description updated.", "success")
          /\ last' = Op("accept", "description", "applied")
     ELSE /\ last' = Op("accept", "description", "noop")
          /\ UNCHANGED << story, cm, toasts >>
  /\ UNCHANGED << activeView, aiProvider, isSaving, isLoading, picker, download, now, so, pm, ce, calls, nextId >>

DescriptionOnDismiss ==
  /\ session \in {"description"}
  /\ activeView = "characters"
  /\ TruthyObject(cm.suggestedDescription)
  /\ cm' = [cm EXCEPT !.suggestedDescription = None]
  /\ last' = Op("dismiss", "description", "")
  /\ UNCHANGED << story, activeView, aiProvider, isSaving, isLoading, picker, download, toasts, now,
                  so, pm, ce, calls, nextId >>

CharacterOnChange(k, field, value) ==
  /\ session \in {"description", "portrait", "reset"}
  /\ activeView = "characters"
  /\ k \in 1..Len(story.characters)
  /\ story.characters[k][field] /= value
  /\ story' = handleUpdateCharacter(story.characters, story.characters[k].id, field, value)
  /\ last' = Other
  /\ UNCHANGED << activeView, aiProvider, isSaving, isLoading, picker, download, toasts, now,
                  so, pm, cm, ce, calls, nextId >>

handleDeleteCharacter(k) ==
  /\ session \in {"character", "description", "portrait"}
  /\ activeView = "characters"
  /\ k \in 1..Len(story.characters)
  /\ story' = handleUpdateCharacters(story,
                Filter(story.characters, Ids(story.characters) \ { story.characters[k].id }))
  /\ last' = Other
  /\ UNCHANGED << activeView, aiProvider, isSaving, isLoading, picker, download, toasts, now,
                  so, pm, cm, ce, calls, nextId >>

handleGenerateImage(k) ==
  /\ session \in {"portrait", "reset"}
  /\ activeView = "characters"
  /\ k \in 1..Len(story.characters)
  /\ LET character == story.characters[k] IN
     /\ ~Button(cm.generatingImageId = character.id, None)
     /\ IF character.imagePrompt = ""
        THEN /\ CanToast
             /\ toasts' = addToast("Please provide a visual prompt for the image.", "error")
             /\ last' = Op("trigger", "image", "precondition")
             /\ UNCHANGED << cm, calls >>
        ELSE /\ CanCall
             /\ cm' = [cm EXCEPT !.generatingImageId = character.id]
             /\ calls' = calls (+) SetToBag({ Call("generateCharacterImage", aiProvider,
                                            character.imagePrompt, character.id,
                                            story.characters) })
             /\ last' = Op("trigger", "image", Started(FALSE))
             /\ UNCHANGED toasts
  /\ UNCHANGED << story, activeView, aiProvider, isSaving, isLoading, picker, download, now, so, pm, ce, nextId >>

(* the result is written through the handleUpdateCharacter of the render  *)
(* in which the click happened, that is over the list captured then       *)
handleGenerateImageResolve(c, imageUrl) ==
  /\ c \in BagToSet(calls)
  /\ c.op = "generateCharacterImage"
  /\ imageUrl \in generateCharacterImage(c.input, c.provider)
  /\ CanToast
  /\ calls' = calls (-) SetToBag({ c })
  /\ IF imageUrl /= ""
     THEN /\ story' = handleUpdateCharacter(c.characters, c.id, "imageUrl", imageUrl)
          /\ toasts' = addToast("Image generated successfully!", "success")
          /\ last' = Op("resolve", "image", "success")
     ELSE /\ story' = story
          /\ toasts' = addToast("Failed to generate image.", "error")
          /\ last' = Op("resolve", "image", "sentinel")
  /\ cm' = IF c.live THEN [cm EXCEPT !.generatingImageId = NoId] ELSE cm
  /\ UNCHANGED << activeView, aiProvider, isSaving, isLoading, picker, download, now, so, pm, ce, nextId >>

(* ---------------- ChapterEditor ---------------- *)
selectedChapter ==
  IF ce.selectedChapterId \in Ids(story.chapters)
  THEN Some(CHOOSE c \in { story.chapters[k] : k \in 1..Len(story.chapters) } :
              c.id = ce.selectedChapterId)
  ELSE None

handleAddChapter ==
  /\ session \in {"chapters", "append", "selection"}
  /\ activeView = "chapters"
  /\ CanMint(1)
  /\ story' = handleUpdateChapters(story,
                Append(story.chapters,
                       [id |-> nextId, title |-> "Chapter " \o ToString(Len(story.chapters) + 1),
                        content |-> ""]))
  /\ nextId' = nextId + 1
  /\ ce' = [ce EXCEPT !.selectedChapterId = useEffectSelection(story'.chapters, nextId)]
  /\ last' = Other
  /\ UNCHANGED << activeView, aiProvider, isSaving, isLoading, picker, download, toasts, now,
                  so, pm, cm, calls >>

handleDeleteChapter ==
  /\ session \in {"selection"}
  /\ activeView = "chapters"
  /\ selectedChapter /= None
  /\ story' = handleUpdateChapters(story,
                Filter(story.chapters, Ids(story.chapters) \ { selectedChapter[1].id }))
  /\ ce' = [ce EXCEPT !.selectedChapterId =
                        useEffectSelection(story'.chapters, ce.selectedChapterId)]
  /\ last' = Other
  /\ UNCHANGED << activeView, aiProvider, isSaving, isLoading, picker, download, toasts, now,
                  so, pm, cm, calls, nextId >>

handleUpdateChapter(id, field, value) ==
  handleUpdateChapters(story, UpdateField(story.chapters, id, field, value))

ChapterOnChange(field, value) ==
  /\ session \in {"chapters", "append"}
  /\ activeView = "chapters"
  /\ selectedChapter /= None
  /\ selectedChapter[1][field] /= value
  /\ story' = handleUpdateChapter(selectedChapter[1].id, field, value)
  /\ ce' = IF field = "content" THEN [ce EXCEPT !.suggestion = None] ELSE ce
  /\ last' = Other
  /\ UNCHANGED << activeView, aiProvider, isSaving, isLoading, picker, download, toasts, now,
                  so, pm, cm, calls, nextId >>

ChapterOnClick(k) ==
  /\ session \in {"selection"}
  /\ activeView = "chapters"
  /\ k \in 1..Len(story.chapters)
  /\ ce' = [ce EXCEPT !.selectedChapterId = story.chapters[k].id, !.suggestion = None]
  /\ last' = Other
  /\ UNCHANGED << story, activeView, aiProvider, isSaving, isLoading, picker, download, toasts, now,
                  so, pm, cm, calls, nextId >>

(* variant: the click handler without setSuggestion(null) *)
handleContinue_KeepsSuggestion ==
  /\ session \in {"chapters", "append", "selection"}
  /\ activeView = "chapters"
  /\ selectedChapter /= None
  /\ ~Button(ce.isContinuing, None)
  /\ CanCall
  /\ ce' = [ce EXCEPT !.isContinuing = TRUE]
  /\ calls' = calls (+) SetToBag({ Call("continueWritingChapter", aiProvider,
                                 selectedChapter[1].content, selectedChapter[1].id,
                                 << >>) })
  /\ last' = Op("trigger", "chapter", Started(TruthyObject(ce.suggestion)))
  /\ UNCHANGED << story, activeView, aiProvider, isSaving, isLoading, picker, download, toasts, now,
                  so, pm, cm, nextId >>

handleContinue ==
  /\ session \in {"chapters", "append", "selection"}
  /\ activeView = "chapters"
  /\ selectedChapter /= None
  /\ ~Button(ce.isContinuing, None)
  /\ CanCall
  /\ ce' = [ce EXCEPT !.isContinuing = TRUE, !.suggestion = None]
  /\ calls' = calls (+) SetToBag({ Call("continueWritingChapter", aiProvider,
                                 selectedChapter[1].content, selectedChapter[1].id,
                                 << >>) })
  /\ last' = Op("trigger", "chapter", Started(TruthyObject(ce.suggestion)))
  /\ UNCHANGED << story, activeView, aiProvider, isSaving, isLoading, picker, download, toasts, now,
                  so, pm, cm, nextId >>

(* variant: a failed continuation is not reported *)
handleContinueResolve_Silent(c, continuation) ==
  /\ c \in BagToSet(calls)
  /\ c.op = "continueWritingChapter"
  /\ continuation \in continueWritingChapter(c.provider)
  /\ CanToast
  /\ calls' = calls (-) SetToBag({ c })
  /\ IF ~includes(continuation, "[AI failed")
     THEN /\ ce' = IF c.live
                   THEN [ce EXCEPT !.suggestion = Some([type |-> "continue", content |-> continuation]),
                                   !.isContinuing = FALSE]
                   ELSE ce
          /\ toasts' = addToast("Suggestion generated successfully!", "success")
          /\ last' = Op("resolve", "chapter", IF c.live THEN "success" ELSE "unmounted")
     ELSE /\ ce' = IF c.live THEN [ce EXCEPT !.isContinuing = FALSE] ELSE ce
          /\ toasts' = toasts
          /\ last' = Op("resolve", "chapter", "sentinel")
  /\ UNCHANGED << story, activeView, aiProvider, isSaving, isLoading, picker, download, now, so, pm, cm, nextId >>

handleContinueResolve(c, continuation) ==
  /\ c \in BagToSet(calls)
  /\ c.op = "continueWritingChapter"
  /\ continuation \in continueWritingChapter(c.provider)
  /\ CanToast
  /\ calls' = calls (-) SetToBag({ c })
  /\ IF ~includes(continuation, "[AI failed")
     THEN /\ ce' = IF c.live
                   THEN [ce EXCEPT !.suggestion = Some([type |-> "continue", content |-> continuation]),
                                   !.isContinuing = FALSE]
                   ELSE ce
          /\ toasts' = addToast("Suggestion generated successfully!", "success")
          /\ last' = Op("resolve", "chapter", IF c.live THEN "success" ELSE "unmounted")
     ELSE /\ ce' = IF c.live THEN [ce EXCEPT !.isContinuing = FALSE] ELSE ce
          /\ toasts' = addToast("Failed to continue chapter.", "error")
          /\ last' = Op("resolve", "chapter", "sentinel")
  /\ UNCHANGED << story, activeView, aiProvider, isSaving, isLoading, picker, download, now, so, pm, cm, nextId >>

handleRefine ==
  /\ session \in {"chapters"}
  /\ activeView = "chapters"
  /\ selectedChapter /= None
  /\ ~Button(ce.isRefining, Some(selectedChapter[1].content = ""))
  /\ IF selectedChapter[1].content = ""
     THEN /\ CanToast
          /\ toasts' = addToast("There is no content to refine.", "error")
          /\ last' = Op("trigger", "chapter", "precondition")
          /\ UNCHANGED << ce, calls >>
     ELSE /\ CanCall
          /\ ce' = [ce EXCEPT !.isRefining = TRUE, !.suggestion = None]
          /\ calls' = calls (+) SetToBag({ Call("refineChapterContent", aiProvider,
                                         selectedChapter[1].content, selectedChapter[1].id,
                                 << >>) })
          /\ last' = Op("trigger", "chapter", Started(TruthyObject(ce.suggestion)))
          /\ UNCHANGED toasts
  /\ UNCHANGED << story, activeView, aiProvider, isSaving, isLoading, picker, download, now, so, pm, cm, nextId >>

handleRefineResolve(c, refinedContent) ==
  /\ c \in BagToSet(calls)
  /\ c.op = "refineChapterContent"
  /\ refinedContent \in refineChapterContent(c.input, c.provider)
  /\ CanToast
  /\ calls' = calls (-) SetToBag({ c })
  /\ IF ~includes(refinedContent, "[AI failed")
     THEN /\ ce' = IF c.live
                   THEN [ce EXCEPT !.suggestion = Some([type |-> "refine", content |-> refinedContent]),
                                   !.isRefining = FALSE]
                   ELSE ce
          /\ toasts' = addToast("Refinement generated successfully!", "success")
          /\ last' = Op("resolve", "chapter", IF c.live THEN "success" ELSE "unmounted")
     ELSE /\ ce' = IF c.live THEN [ce EXCEPT !.isRefining = FALSE] ELSE ce
          /\ toasts' = addToast("Failed to refine chapter.", "error")
          /\ last' = Op("resolve", "chapter", "sentinel")
  /\ UNCHANGED << story, activeView, aiProvider, isSaving, isLoading, picker, download, now, so, pm, cm, nextId >>

(* variant: the continuation is joined to the content as it is *)
AcceptedContent_NoTrim(content, suggestion) ==
  IF suggestion.type = "continue"
  THEN content \o "\n\n" \o suggestion.content
  ELSE suggestion.content

AcceptedContent(content, suggestion) ==
  IF suggestion.type = "continue"
  THEN LET currentContent == trim(content)
           separator == IF currentContent /= "" THEN "\n\n" ELSE ""
       IN  currentContent \o separator \o suggestion.content
  ELSE suggestion.content

ChapterAcceptSuggestion ==
  /\ session \in {"chapters", "append", "selection"}
  /\ activeView = "chapters"
  /\ IF TruthyObject(ce.suggestion) /\ selectedChapter /= None
     THEN /\ CanToast
          /\ Len(AcceptedContent(selectedChapter[1].content, ce.suggestion[1])) <= MaxContent
          /\ story' = handleUpdateChapter(selectedChapter[1].id, "content",
                        AcceptedContent(selectedChapter[1].content, ce.suggestion[1]))
          /\ toasts' = addToast(IF ce.suggestion[1].type = "continue" THEN "Chapter updated."
                                ELSE "Chapter content replaced.", "success")
          /\ ce' = [ce EXCEPT !.suggestion = None]
          /\ last' = Op("accept", "chapter", "applied")
     ELSE /\ last' = Op("accept", "chapter", "noop")
          /\ UNCHANGED << story, ce, toasts >>
  /\ UNCHANGED << activeView, aiProvider, isSaving, isLoading, picker, download, now, so, pm, cm, calls, nextId >>

ChapterOnDismiss ==
  /\ session \in {"chapters"}
  /\ activeView = "chapters"
  /\ selectedChapter /= None
  /\ TruthyObject(ce.suggestion)
  /\ ce' = [ce EXCEPT !.suggestion = None]
  /\ last' = Op("dismiss", "chapter", "")
  /\ UNCHANGED << story, activeView, aiProvider, isSaving, isLoading, picker, download, toasts, now,
                  so, pm, cm, calls, nextId >>

(* ---------------- the next-state relation ---------------- *)
OverviewResults == UNION { generateStoryOverview(t, p) : t \in TextIn, p \in AIProvider }
TextResults ==
  UNION { generateMainPlot(t, p) \cup refineMainPlot(t, p) \cup refineSubplotDescription(t, p)
          \cup refineCharacterDescription(t, p) \cup refineChapterContent(t, p)
          \cup continueWritingChapter(p) : t \in TextIn, p \in AIProvider }
SubplotResults == UNION { generateSubplots(p) : p \in AIProvider }
CharacterResults == UNION { generateCharacter(p) : p \in AIProvider }
ImageResults == UNION { generateCharacterImage(t, p) : t \in TextIn, p \in AIProvider }

(* the views a session walks through, and what it types into its items *)
SessionViews ==
  CASE session = "app" -> Views
    [] session \in {"overview", "plot"} -> {"overview", "plot"}
    [] session \in {"subplots", "subplot"} -> {"plot"}
    [] session \in {"character", "description", "portrait", "reset"} -> {"characters"}
    [] session \in {"file", "toasts"} -> {"overview"}
    [] OTHER -> {"chapters"}

(* what is typed into a chapter; the run that appends continuations types *)
(* blank text and text with a blank end                                   *)
(* what is typed into the title; the run that saves types titles with      *)
(* punctuation, a blank, quotes and a backslash                            *)
FileTitles == {"", "a", "?!", "a b", "\"a\\n\""}
TitleIn == IF session = "file" THEN FileTitles ELSE TextIn

ChapterTextIn == IF session = "append" THEN {" ", "a "} ELSE {"a"}

CharacterFields ==
  IF session = "description" THEN {"name", "description"} ELSE {"imagePrompt"}

Next ==
  \/ \E id \in 0..MaxNow : removeToast(id)
  \/ \E v \in SessionViews : setActiveView(v)
  \/ Tick
  \/ \E p \in AIProvider : handleProviderChange(p)
  \/ \E t \in TitleIn : handleUpdateTitle(t)
  \/ \E ok \in BOOLEAN : handleSave(ok)
  \/ \E b \in BOOLEAN : handleDeleteStory(b)
  \/ handleLoad
  \/ PickerCancel
  \/ \E f \in Picked : handleLoadResolve(f)
  \/ download /= None /\ handleLoadResolve(PickedDownload)
  \/ \E v \in TextIn : SetPrompt(v)
  \/ \E v \in TextIn : OverviewOnChange(v)
  \/ handleGenerate
  \/ \E c \in BagToSet(calls) : \E r \in OverviewResults : handleGenerateResolve(c, r)
  \/ handleAcceptSuggestion
  \/ OverviewOnDismiss
  \/ \E v \in TextIn : MainPlotOnChange(v)
  \/ handleGeneratePlot
  \/ \E c \in BagToSet(calls) : \E r \in TextResults : handleGeneratePlotResolve(c, r)
  \/ handleAcceptPlot
  \/ handleRefinePlot
  \/ \E c \in BagToSet(calls) : \E r \in TextResults : handleRefinePlotResolve(c, r)
  \/ handleAcceptRefinedPlot
  \/ MainPlotOnDismiss
  \/ RefinedPlotOnDismiss
  \/ handleGenerateSubplots
  \/ \E c \in BagToSet(calls) : \E r \in SubplotResults : handleGenerateSubplotsResolve(c, r)
  \/ handleAcceptSubplots
  \/ SubplotsOnDismiss
  \/ handleAddSubplot
  \/ \E k \in 1..MaxIds : SubplotOnChange(k, "description", "a")
  \/ \E k \in 1..MaxBatchIds : handleDeleteSubplot(k)
  \/ \E k \in 1..MaxIds : handleRefineSubplot(k)
  \/ \E c \in BagToSet(calls) : \E r \in TextResults : handleRefineSubplotResolve(c, r)
  \/ handleAcceptRefinedSubplot
  \/ RefinedSubplotOnDismiss
  \/ handleAddCharacter
  \/ handleGenerateCharacter
  \/ \E c \in BagToSet(calls) : \E r \in CharacterResults : handleGenerateCharacterResolve(c, r)
  \/ handleAcceptCharacter
  \/ CharacterOnDismiss
  \/ \E k \in 1..MaxIds : \E f \in CharacterFields : CharacterOnChange(k, f, "a")
  \/ \E k \in 1..MaxIds : handleDeleteCharacter(k)
  \/ \E k \in 1..MaxIds : handleRefineDescription(k)
  \/ \E c \in BagToSet(calls) : \E r \in TextResults : handleRefineDescriptionResolve(c, r)
  \/ handleAcceptRefinedDescription
  \/ DescriptionOnDismiss
  \/ \E k \in 1..MaxIds : handleGenerateImage(k)
  \/ \E c \in BagToSet(calls) : \E r \in ImageResults : handleGenerateImageResolve(c, r)
  \/ handleAddChapter
  \/ handleDeleteChapter
  \/ \E v \in ChapterTextIn : ChapterOnChange("content", v)
  \/ \E k \in 1..MaxChapters : ChapterOnClick(k)
  \/ handleContinue
  \/ \E c \in BagToSet(calls) : \E r \in TextResults : handleContinueResolve(c, r)
  \/ handleRefine
  \/ \E c \in BagToSet(calls) : \E r \in TextResults : handleRefineResolve(c, r)
  \/ ChapterAcceptSuggestion
  \/ ChapterOnDismiss

Spec == Init /\ [][Next]_vars

(* ---------------- runs in which what was started is finished ---------------- *)
(* The handlers that start something (a provider call, a load), what they  *)
(* need to be enabled, and the completions.                                *)
Resolves(ops) ==
  \E c \in BagToSet(calls) :
     /\ c.op \in ops
     /\ \/ \E r \in OverviewResults : handleGenerateResolve(c, r)
        \/ \E r \in TextResults : handleGeneratePlotResolve(c, r)
        \/ \E r \in TextResults : handleRefinePlotResolve(c, r)
        \/ \E r \in SubplotResults : handleGenerateSubplotsResolve(c, r)
        \/ \E r \in TextResults : handleRefineSubplotResolve(c, r)
        \/ \E r \in CharacterResults : handleGenerateCharacterResolve(c, r)
        \/ \E r \in TextResults : handleRefineDescriptionResolve(c, r)
        \/ \E r \in ImageResults : handleGenerateImageResolve(c, r)
        \/ \E r \in TextResults : handleContinueResolve(c, r)
        \/ \E r \in TextResults : handleRefineResolve(c, r)

ProviderOps ==
  {"generateStoryOverview", "generateMainPlot", "generateSubplots", "refineMainPlot",
   "refineSubplotDescription", "generateCharacter", "generateCharacterImage",
   "refineCharacterDescription", "refineChapterContent", "continueWritingChapter"}
(* the second operation of the two surfaces that have two *)
RefineOps == {"refineMainPlot", "refineChapterContent"}

DialogCloses == PickerCancel \/ \E f \in Picked : handleLoadResolve(f)

FairNext ==
  \/ \E id \in 0..MaxNow : removeToast(id)
  \/ \E v \in SessionViews : setActiveView(v)
  \/ handleLoad
  \/ DialogCloses
  \/ \E v \in TextIn : SetPrompt(v)
  \/ \E v \in TextIn : OverviewOnChange(v)
  \/ handleGenerate
  \/ \E v \in TextIn : MainPlotOnChange(v)
  \/ handleGeneratePlot
  \/ handleRefinePlot
  \/ handleGenerateSubplots
  \/ handleAddSubplot
  \/ \E k \in 1..MaxIds : SubplotOnChange(k, "description", "a")
  \/ \E k \in 1..MaxIds : handleRefineSubplot(k)
  \/ handleAddCharacter
  \/ handleGenerateCharacter
  \/ \E k \in 1..MaxIds : \E f \in CharacterFields : CharacterOnChange(k, f, "a")
  \/ \E k \in 1..MaxIds : handleRefineDescription(k)
  \/ \E k \in 1..MaxIds : handleGenerateImage(k)
  \/ handleAddChapter
  \/ \E v \in ChapterTextIn : ChapterOnChange("content", v)
  \/ handleContinue
  \/ handleRefine
  \/ Resolves(ProviderOps)

(* Every provider call resolves: a resolution that is possible again and   *)
(* again is taken.  A run uses the operations of one session, which are    *)
(* one operation, or one operation and one of RefineOps, so that the two   *)
(* conditions are one condition for each operation of the run.  The file   *)
(* dialog is closed, by a choice or without one.  Notifications are        *)
(* dismissed: the bound on their list is of the model, and no handler is   *)
(* kept waiting for room in it.  The run that deletes the story is left    *)
(* out: the delete is not an operation of these runs.                      *)
FairInit == Init /\ last.session /= "reset"

FairSpec ==
  /\ FairInit
  /\ [][FairNext]_vars
  /\ SF_vars(Resolves(ProviderOps \ RefineOps))
  /\ SF_vars(Resolves(RefineOps))
  /\ WF_vars(DialogCloses)
  /\ WF_vars(\E id \in 0..MaxNow : removeToast(id))

(* ---------------- the properties ---------------- *)
Suggestions ==
  [overview |-> so.suggestion, mainPlot |-> pm.suggestedMainPlot,
   refinedPlot |-> pm.suggestedRefinedPlot, subplots |-> pm.suggestedSubplots,
   refinedSubplot |-> pm.suggestedRefinedSubplot, character |-> cm.suggestedCharacter,
   description |-> cm.suggestedDescription, chapter |-> ce.suggestion]
SlotNames == DOMAIN Suggestions

(* a suggestion is pending when its SuggestionBox is rendered *)
Held(slot) ==
  CASE slot \in {"overview", "mainPlot", "refinedPlot"} -> TruthyText(Suggestions[slot])
    [] slot \in SlotNames \ {"overview", "mainPlot", "refinedPlot"} -> TruthyObject(Suggestions[slot])
    [] OTHER -> FALSE

(* the suggestion states of the surface an operation belongs to *)
SurfaceSlots(slot) ==
  IF slot \in {"mainPlot", "refinedPlot"} THEN {"mainPlot", "refinedPlot"}
  ELSE IF slot \in SlotNames THEN {slot}
  ELSE {}

LoadingFlags ==
  << so.isLoading, pm.plotLoading, pm.plotRefining, pm.subplotsLoading, pm.subplotsRefiningId,
     cm.isGenerating, cm.generatingImageId, cm.refiningCharacterId,
     ce.isContinuing, ce.isRefining >>

(* C1: every surface holds at most one pending suggestion; the main-plot    *)
(* surface never shows a generated plot and a refined plot at once.         *)
C1_AtMostOneSuggestion ==
  \A slot \in SlotNames : Cardinality({ s \in SurfaceSlots(slot) : Held(s) }) <= 1

C3_SentinelLeavesIdle ==
  (last.op = "resolve" /\ last.how = "sentinel") =>
     /\ \A s \in SurfaceSlots(last.slot) : ~Held(s)
     /\ toasts /= << >>
     /\ toasts[Len(toasts)].type = "error"

(* C4: a click whose precondition fails leaves the Story, the suggestions   *)
(* and the loading flags as they were, issues no call and adds one error    *)
(* notification.                                                            *)
PreconditionFails ==
  \/ handleGenerate /\ so.prompt = ""
  \/ handleGeneratePlot /\ story.overview = ""
  \/ handleRefinePlot /\ story.mainPlot = ""
  \/ handleGenerateSubplots /\ story.mainPlot = ""
  \/ \E k \in 1..MaxIds :
       handleRefineSubplot(k) /\ story.subplots[k].description = ""
  \/ \E k \in 1..Len(story.characters) :
       handleRefineDescription(k) /\ story.characters[k].description = ""
  \/ \E k \in 1..Len(story.characters) :
       handleGenerateImage(k) /\ story.characters[k].imagePrompt = ""
  \/ handleRefine /\ selectedChapter /= None /\ selectedChapter[1].content = ""

C4_PreconditionFailure ==
  [][ PreconditionFails =>
        /\ story' = story
        /\ Suggestions' = Suggestions
        /\ LoadingFlags' = LoadingFlags
        /\ calls' = calls
        /\ Len(toasts') = Len(toasts) + 1
        /\ SubSeq(toasts', 1, Len(toasts)) = toasts
        /\ toasts'[Len(toasts')].type = "error" ]_vars

C4_Witness ==
  /\ last = Op("trigger", "mainPlot", "precondition")
  /\ Held("refinedPlot")
  /\ toasts /= << >>
  /\ toasts[Len(toasts)].type = "error"
  /\ calls = EmptyBag

(* C5: a surface never has two provider calls outstanding.                  *)
SurfaceOf(c) ==
  CASE c.op \in {"generateMainPlot", "refineMainPlot"} -> << "mainPlot", NoId >>
    [] c.op \in {"continueWritingChapter", "refineChapterContent"} -> << "chapter", NoId >>
    [] OTHER -> << c.op, c.id >>

C5_OneCallPerSurface ==
  \A c, d \in BagToSet(calls) :
    (c.live /\ d.live) =>
       /\ CopiesIn(c, calls) = 1
       /\ c /= d => SurfaceOf(c) /= SurfaceOf(d)

(* C6: a portrait that completes for character c changes nothing of the     *)
(* Story but the imageUrl of c in the list as it is at that moment.         *)
C6_PortraitOnlySetsImageUrl ==
  [][ \A c \in BagToSet(calls) : \A r \in ImageResults :
        (handleGenerateImageResolve(c, r) /\ r /= "") =>
          story' = [story EXCEPT !.characters =
                      UpdateField(story.characters, c.id, "imageUrl", r)] ]_vars

(* C7: a click that issues a call leaves the surface without a pending      *)
(* suggestion, and a suggestion appears on a surface only when a call of    *)
(* that operation resolves, so the one held before the click is gone.       *)
C7_TriggerClearsSuggestion ==
  [][ /\ (last'.op = "trigger" /\ BagCardinality(calls') > BagCardinality(calls)) =>
            \A s \in SurfaceSlots(last'.slot) : ~Held(s)'
      /\ \A s \in SlotNames :
            (~Held(s) /\ Held(s)') => (last'.op = "resolve" /\ last'.slot = s) ]_vars

C7_Witness ==
  /\ last.op = "trigger"
  /\ last.how = "cleared"
  /\ calls /= EmptyBag
  /\ \A s \in SurfaceSlots(last.slot) : ~Held(s)

(* C8: right after a successful resolution the surface holds exactly one    *)
(* pending suggestion, and it is the value the call returned.               *)
HoldsExactly(slot, v) ==
  /\ Suggestions[slot] = Some(v)
  /\ Cardinality({ s \in SurfaceSlots(slot) : Held(s) }) = 1

C8_SuccessInstallsOneSuggestion ==
  [][ \A c \in BagToSet(calls) : c.live =>
        /\ \A r \in OverviewResults :
             (handleGenerateResolve(c, r) /\ ~startsWith(r, "Failed")) =>
               HoldsExactly("overview", r)'
        /\ \A r \in TextResults :
             /\ (handleGeneratePlotResolve(c, r) /\ ~startsWith(r, "Failed")) =>
                  HoldsExactly("mainPlot", r)'
             /\ (handleRefinePlotResolve(c, r) /\ ~startsWith(r, "Failed")) =>
                  HoldsExactly("refinedPlot", r)'
             /\ (handleRefineSubplotResolve(c, r) /\ ~startsWith(r, "Failed")) =>
                  HoldsExactly("refinedSubplot", [id |-> c.id, description |-> r])'
             /\ (handleRefineDescriptionResolve(c, r) /\ ~startsWith(r, "Failed")) =>
                  HoldsExactly("description", [id |-> c.id, description |-> r])'
             /\ (handleContinueResolve(c, r) /\ ~includes(r, "[AI failed")) =>
                  HoldsExactly("chapter", [type |-> "continue", content |-> r])'
             /\ (handleRefineResolve(c, r) /\ ~includes(r, "[AI failed")) =>
                  HoldsExactly("chapter", [type |-> "refine", content |-> r])'
        /\ \A r \in SubplotResults :
             (handleGenerateSubplotsResolve(c, r) /\ r /= << >>) =>
               HoldsExactly("subplots", r)'
        /\ \A r \in CharacterResults :
             (handleGenerateCharacterResolve(c, r) /\ r.name /= "Error") =>
               HoldsExactly("character", r)'
        /\ \A r \in ImageResults :
             (handleGenerateImageResolve(c, r) /\ r /= "") =>
               (\E s \in SlotNames : Held(s))' ]_vars

(* C9: the accept handler of a slot that holds no suggestion changes        *)
(* neither the Story nor the suggestions nor the notifications.             *)
C9_AcceptWithoutSuggestion ==
  [][ (last'.op = "accept" /\ ~Held(last'.slot)) =>
        (story' = story /\ Suggestions' = Suggestions /\ toasts' = toasts) ]_vars

C9_Witness ==
  /\ last = Op("accept", "overview", "noop")
  /\ story.overview = GeminiText
  /\ so.suggestion = None

(* C10: a discard leaves the Story, the loading flags and the suggestions   *)
(* of the other surfaces as they were, and its surface holds no pending     *)
(* suggestion afterwards.                                                   *)
C10_DiscardLeavesIdle ==
  [][ last'.op = "dismiss" =>
        /\ story' = story
        /\ LoadingFlags' = LoadingFlags
        /\ \A s \in SlotNames \ SurfaceSlots(last'.slot) : Suggestions'[s] = Suggestions[s]
        /\ \A s \in SurfaceSlots(last'.slot) : ~Held(s)' ]_vars

(* one notification of the given type is added at the end of the list *)
AddsOneToast(type) ==
  /\ Len(toasts') = Len(toasts) + 1
  /\ SubSeq(toasts', 1, Len(toasts)) = toasts
  /\ toasts'[Len(toasts')].type = type

(* C11: accepting an overview, a generated plot, a refined plot or a        *)
(* refined chapter content sets the target field to the suggestion value,   *)
(* leaves the rest of the Story as it was, clears the suggestion that was   *)
(* accepted and adds one success notification.                              *)
C11_AcceptReplacesField ==
  [][ (last'.op = "accept" /\ last'.how = "applied") =>
        /\ (last'.slot = "overview") =>
              /\ story' = [story EXCEPT !.overview = so.suggestion[1]]
              /\ so'.suggestion = None
              /\ AddsOneToast("success")
        /\ (last'.slot = "mainPlot") =>
              /\ story' = [story EXCEPT !.mainPlot = pm.suggestedMainPlot[1]]
              /\ pm'.suggestedMainPlot = None
              /\ AddsOneToast("success")
        /\ (last'.slot = "refinedPlot") =>
              /\ story' = [story EXCEPT !.mainPlot = pm.suggestedRefinedPlot[1]]
              /\ pm'.suggestedRefinedPlot = None
              /\ AddsOneToast("success")
        /\ (last'.slot = "chapter" /\ ce.suggestion[1].type = "refine") =>
              /\ \E k \in 1..Len(story.chapters) :
                    /\ story.chapters[k].id = ce.selectedChapterId
                    /\ story' = [story EXCEPT !.chapters[k].content = ce.suggestion[1].content]
              /\ ce'.suggestion = None
              /\ AddsOneToast("success") ]_vars

C11_Witness ==
  /\ last = Op("accept", "refinedPlot", "applied")
  /\ story.mainPlot = GeminiText
  /\ story.overview = "a"
  /\ pm.suggestedRefinedPlot = None
  /\ toasts /= << >>
  /\ toasts[Len(toasts)].message = "Main plot updated with refinement."

(* C12: accepting a continuation s on a chapter with content c gives the    *)
(* content trim(c) + "\n\n" + s when trim(c) is not empty and s alone when  *)
(* it is empty; the title and id of the chapter and the other chapters are  *)
(* as they were.                                                            *)
C12_ContinuationAppends ==
  [][ (last'.op = "accept" /\ last'.how = "applied" /\ last'.slot = "chapter"
         /\ ce.suggestion[1].type = "continue") =>
        LET c == selectedChapter[1].content
            s == ce.suggestion[1].content
        IN  /\ Len(story'.chapters) = Len(story.chapters)
            /\ \A k \in 1..Len(story.chapters) :
                  story'.chapters[k] =
                    IF story.chapters[k].id = ce.selectedChapterId
                    THEN [story.chapters[k] EXCEPT
                            !.content = IF trim(c) = "" THEN s ELSE trim(c) \o "\n\n" \o s]
                    ELSE story.chapters[k] ]_vars

C12_Witness ==
  /\ session = "append"
  /\ last = Op("accept", "chapter", "applied")
  /\ \E k \in 1..Len(story.chapters) :
        /\ story.chapters[k].content = "a\n\n" \o GeminiText
        /\ story.chapters[k].title = "Chapter 1"
  /\ ce.suggestion = None

(* C13: accepting a batch of n subplots on a list L gives a list of length  *)
(* |L| + n: L as it was, then the n suggested items in their order, each    *)
(* with an id that is in L nowhere and differs from the ids of the others.  *)
C13_BatchAppends ==
  [][ (last'.op = "accept" /\ last'.how = "applied" /\ last'.slot = "subplots") =>
        LET L == story.subplots
            S == pm.suggestedSubplots[1]
            R == story'.subplots
        IN  /\ Len(R) = Len(L) + Len(S)
            /\ SubSeq(R, 1, Len(L)) = L
            /\ \A k \in 1..Len(S) :
                  /\ R[Len(L) + k].title = S[k].title
                  /\ R[Len(L) + k].description = S[k].description
                  /\ R[Len(L) + k].id \notin Ids(L)
                  /\ \A j \in 1..Len(S) : j /= k => R[Len(L) + j].id /= R[Len(L) + k].id
            /\ story' = [story EXCEPT !.subplots = R] ]_vars

C13_Witness ==
  /\ last = Op("accept", "subplots", "applied")
  /\ Len(story.subplots) = 3
  /\ story.subplots[1].title = "New Subplot"
  /\ story.subplots[2].title = GeminiSubplots[1].title
  /\ story.subplots[3].title = GeminiSubplots[2].title
  /\ Cardinality(Ids(story.subplots)) = 3
  /\ pm.suggestedSubplots = None

(* C14: accepting a refined description for item id i replaces the          *)
(* description of the item with id i in the list as it is at the accept     *)
(* and nothing else: the other items, the other fields of that item, the    *)
(* length and the order of the list and the rest of the Story stay.         *)
RefinedOnly(L, R, sug) ==
  /\ Len(R) = Len(L)
  /\ \A k \in 1..Len(L) :
        R[k] = IF L[k].id = sug.id THEN [L[k] EXCEPT !.description = sug.description] ELSE L[k]

C15_EditDiscardsSuggestion ==
  [][ /\ (\E v \in TextIn : OverviewOnChange(v)) => ~Held("overview")'
      /\ (\E v \in TextIn : MainPlotOnChange(v)) =>
            \A s \in SurfaceSlots("mainPlot") : ~Held(s)'
      /\ (\E v \in ChapterTextIn : ChapterOnChange("content", v)) => ~Held("chapter")' ]_vars

(* C16: a provider switch changes the provider selection and adds one       *)
(* notification that names the new provider; the Story, the suggestions,    *)
(* the loading flags, the view and the calls in flight are as they were.    *)
C16_ProviderSwitchFrame ==
  [][ \A p \in AIProvider :
        (aiProvider' /= aiProvider /\ handleProviderChange(p)) =>
          /\ aiProvider' = p
          /\ story' = story
          /\ Suggestions' = Suggestions
          /\ LoadingFlags' = LoadingFlags
          /\ activeView' = activeView
          /\ calls' = calls
          /\ AddsOneToast("success")
          /\ includes(toasts'[Len(toasts')].message, IF p = "gemini" THEN "Gemini" ELSE "Mock") ]_vars

C16_Witness ==
  /\ session = "overview"
  /\ aiProvider = "mock"
  /\ so.suggestion = Some(GeminiText)
  /\ toasts /= << >>
  /\ toasts[Len(toasts)].message = "Switched to Mock AI (Offline)."

(* C17: a call is answered by the provider that was selected when it was    *)
(* issued: the click records the current selection, a switch leaves the     *)
(* calls in flight as they are, and the suggestion a call installs is a     *)
(* result of the provider recorded in the call.                             *)
ResultsOf(c) ==
  CASE c.op = "generateStoryOverview" -> generateStoryOverview(c.input, c.provider)
    [] c.op = "generateMainPlot" -> generateMainPlot(c.input, c.provider)
    [] c.op = "refineMainPlot" -> refineMainPlot(c.input, c.provider)
    [] c.op = "generateSubplots" -> generateSubplots(c.provider)
    [] c.op = "refineSubplotDescription" -> refineSubplotDescription(c.input, c.provider)
    [] c.op = "generateCharacter" -> generateCharacter(c.provider)
    [] c.op = "generateCharacterImage" -> generateCharacterImage(c.input, c.provider)
    [] c.op = "refineCharacterDescription" -> refineCharacterDescription(c.input, c.provider)
    [] c.op = "continueWritingChapter" -> continueWritingChapter(c.provider)
    [] c.op = "refineChapterContent" -> refineChapterContent(c.input, c.provider)
    [] OTHER -> {}

Installed(slot) ==
  CASE slot \in {"refinedSubplot", "description"} -> Suggestions[slot][1].description
    [] slot = "chapter" -> Suggestions[slot][1].content
    [] OTHER -> Suggestions[slot][1]

C17_ServedByIssuingProvider ==
  [][ /\ (last'.op = "trigger") =>
            \A c \in BagToSet(calls') :
               CopiesIn(c, calls') > CopiesIn(c, calls) => c.provider = aiProvider
      /\ (aiProvider' /= aiProvider) => calls' = calls
      /\ (last'.op = "resolve" /\ last'.how = "success" /\ last'.slot \in SlotNames) =>
            \E c \in BagToSet(calls) :
               /\ calls' = calls (-) SetToBag({ c })
               /\ \E s \in SlotNames : s = last'.slot /\ Installed(s)' \in ResultsOf(c) ]_vars

C17_Witness ==
  /\ last = Op("resolve", "character", "success")
  /\ cm.suggestedCharacter = Some(GeminiCharacter)
  /\ aiProvider = "mock"

(* C18: each update operation of the container sets its field to the given *)
(* value and leaves the other fields of the Story, the provider selection   *)
(* and the notifications as they were, whatever the current Story is.       *)
OnlyField(r, s, field, value) ==
  /\ DOMAIN r = DOMAIN s \cup {field}
  /\ r[field] = value
  /\ \A k \in DOMAIN s \ {field} : r[k] = s[k]

UpdatesSetOneField(s) ==
  /\ \A v \in TextIn :
        /\ OnlyField(handleUpdateOverview(s, v), s, "overview", v)
        /\ OnlyField(handleUpdateMainPlot(s, v), s, "mainPlot", v)
  /\ \A l \in {<< >>, s.characters} :
        /\ OnlyField(handleUpdateSubplots(s, l), s, "subplots", l)
        /\ OnlyField(handleUpdateCharacters(s, l), s, "characters", l)
        /\ OnlyField(handleUpdateChapters(s, l), s, "chapters", l)

C18_UpdateSetsOneField ==
  [][ (IF story' = story THEN last.op = "init" ELSE TRUE) =>
        /\ UpdatesSetOneField(story')
        /\ \A t \in TextIn :
              handleUpdateTitle(t) => OnlyField(story', story, "title", t)
        /\ \A v \in TextIn :
              OverviewOnChange(v) => OnlyField(story', story, "overview", v)
        /\ \A v \in TextIn :
              MainPlotOnChange(v) => OnlyField(story', story, "mainPlot", v)
        /\ ((\E v \in TextIn : handleUpdateTitle(v) \/ OverviewOnChange(v) \/ MainPlotOnChange(v))
              \/ handleAddSubplot \/ handleAddCharacter \/ handleAddChapter) =>
              (aiProvider' = aiProvider /\ toasts' = toasts) ]_vars

C18_Witness ==
  /\ session = "plot"
  /\ activeView = "plot"
  /\ story = [initialStory EXCEPT !.overview = "a", !.mainPlot = "a"]

(* C19: a declined delete leaves the Story, the view and the notifications  *)
(* as they were; a confirmed delete leaves the initial story (title         *)
(* 'Untitled Story', empty texts and lists) in the Overview view and adds   *)
(* one success notification.                                                *)
C19_DeleteNeedsConfirmation ==
  [][ /\ (last'.how = "declined" /\ handleDeleteStory(FALSE)) =>
            (story' = story /\ activeView' = activeView /\ toasts' = toasts)
      /\ (last'.how = "confirmed" /\ handleDeleteStory(TRUE)) =>
            /\ story' = [title |-> "Untitled Story", overview |-> "", mainPlot |-> "",
                         subplots |-> << >>, characters |-> << >>, chapters |-> << >>]
            /\ activeView' = "overview"
            /\ AddsOneToast("success") ]_vars

C19_Witness ==
  /\ last = Op("deleteStory", "", "confirmed")
  /\ story = initialStory
  /\ activeView = "overview"
  /\ aiProvider = "mock"
  /\ toasts /= << >>
  /\ toasts[Len(toasts)].message = "Story deleted."

(* C20: a load replaces the whole Story with the document of the file       *)
(* exactly when the parsed document has the keys title, overview, mainPlot  *)
(* and characters; with a key missing, an unparsable file, a read error or  *)
(* no file the load gives no document, and the Story and the notifications  *)
(* are as they were.                                                        *)
C20_LoadValidates ==
  [][ \A f \in Picked :
        (last'.op = "load" /\ handleLoadResolve(f)) =>
          IF f.kind = "parsed"
             /\ \A key \in {"title", "overview", "mainPlot", "characters"} : key \in DOMAIN f.doc
          THEN /\ loadStoryFromLocalFile(f) = Some(f.doc)
               /\ story' = f.doc
               /\ AddsOneToast("success")
          ELSE /\ loadStoryFromLocalFile(f) = None
               /\ story' = story
               /\ toasts' = toasts ]_vars

C20_Witness ==
  /\ last = Op("load", "", "loaded")
  /\ story = FourKeys
  /\ aiProvider = "mock"
  /\ isLoading = FALSE
  /\ toasts /= << >>
  /\ toasts[Len(toasts)].message = "Story loaded successfully!"

(* C21: every load attempt ends: in a run in which the file dialog is       *)
(* closed, by a choice or without one, isLoading once set becomes false     *)
(* again, so that the Load button can be used again.                        *)
C21_LoadTerminates == isLoading ~> ~isLoading
(* C22: loading the document produced by saving a Story gives that Story:   *)
(* the file written by a save parses to a document that passes the check    *)
(* of the keys and equals the Story that was saved, and picking that file   *)
(* in the dialog makes it the Story again.                                  *)
C22_RoundTrip ==
  [][ /\ (last'.op = "save" /\ last'.how = "saved") =>
            /\ download' = Some(saveStoryToLocalDirectory(story))
            /\ loadStoryFromLocalFile(
                 [kind |-> "parsed", doc |-> JSONparse(download'[1].text)]) = Some(story)
      /\ (last'.op = "load" /\ download /= None /\ picker = "open") =>
            (handleLoadResolve(PickedDownload) =>
               story' = JSONparse(JSONstringify(JSONparse(download[1].text)))) ]_vars

C22_Witness ==
  /\ last = Op("load", "", "loaded")
  /\ story = [FullStory EXCEPT !.title = "\"a\\n\""]
  /\ download /= None
  /\ download[1].name = "_a_n_.json"
  /\ JSONparse(download[1].text) = story
(* C23: the file of a save is named after the title with every character    *)
(* that is not a letter or a digit replaced by an underscore, followed by   *)
(* .json, and gets the default name story_forge_project.json when the       *)
(* title is empty or holds no letter and no digit.                          *)
C23_HasAlphanumeric(title) == \E k \in 1..Len(title) : Char(title, k) \in Alphanumeric

C23_FileName ==
  [][ (last'.op = "save" /\ last'.how = "saved") =>
         download'[1].name =
            IF C23_HasAlphanumeric(story.title)
            THEN replaceNonAlphanumeric(story.title) \o ".json"
            ELSE "story_forge_project.json" ]_vars
(* C24: no operation of the provider service raises to its caller: every    *)
(* call in flight, of either variant, ends by returning a value, whatever   *)
(* the backend does; the values it can return are the success values and    *)
(* the sentinel of its operation (a text starting with Failed, a text       *)
(* tagged [AI failed, the empty list, the empty string, the record named    *)
(* Error), and a failed request or an unparsable answer gives the sentinel. *)
C24_SentinelForm(op) ==
  CASE op \in {"generateStoryOverview", "generateMainPlot", "refineMainPlot",
               "refineSubplotDescription", "refineCharacterDescription"} ->
            startsWith(Sentinel(op), "Failed")
    [] op \in {"refineChapterContent", "continueWritingChapter"} ->
            includes(Sentinel(op), "[AI failed")
    [] op = "generateSubplots" -> Len(Sentinel(op)) = 0
    [] op = "generateCharacterImage" -> Sentinel(op) = ""
    [] op = "generateCharacter" -> Sentinel(op).name = "Error"

C24_Fails(op) ==
  {"rejects"} \cup (IF op \in {"generateSubplots", "generateCharacter"} THEN {"unparsable"} ELSE {})

C24_NeverRaises ==
  \A c \in BagToSet(calls) :
     LET ends == Outcomes(c.op, c.input, c.provider)
     IN  /\ ends /= {}
         /\ \A o \in ends : ~o.raised
         /\ { o.value[1] : o \in { e \in ends : ~e.raised } } = ResultsOf(c)
         /\ C24_SentinelForm(c.op)
         /\ (c.provider = "gemini" /\ ~(c.op = "generateCharacterImage" /\ c.input = "")) =>
               \A b \in C24_Fails(c.op) :
                  tryCatch(geminiBody(c.op, b), Sentinel(c.op)) = Returned(Sentinel(c.op))

C24_Witness ==
  /\ last = Op("resolve", "mainPlot", "sentinel")
  /\ pm.suggestedMainPlot = Some(FailedMainPlot)
  /\ \E c \in BagToSet(calls) :
        /\ c.op = "refineMainPlot"
        /\ c.provider = "gemini"
        /\ geminiBody(c.op, "rejects").raised
        /\ Returned(FailedRefinePlot) \in Outcomes(c.op, c.input, c.provider)
(* C25: surfaces are independent of each other: a step of the suggestion    *)
(* lifecycle on one surface leaves the component state of the other         *)
(* components as it is, and the answer to a call issued for one chapter     *)
(* leaves the pending suggestion of another chapter, the one selected when  *)
(* the answer arrives, as it is.                                            *)
C25_Lifecycle == {"trigger", "resolve", "accept", "dismiss"}

C25_SurfacesIndependent ==
  [][ /\ (last'.op \in C25_Lifecycle /\ last'.slot = "overview") => UNCHANGED << pm, cm, ce >>
      /\ (last'.op \in C25_Lifecycle /\
          last'.slot \in {"mainPlot", "refinedPlot", "subplots", "refinedSubplot"}) =>
            UNCHANGED << so, cm, ce >>
      /\ (last'.op \in C25_Lifecycle /\ last'.slot \in {"character", "description"}) =>
            UNCHANGED << so, pm, ce >>
      /\ (last'.op \in C25_Lifecycle /\ last'.slot = "chapter") => UNCHANGED << so, pm, cm >>
      /\ \A c \in BagToSet(calls) :
            ( /\ last'.op = "resolve"
              /\ calls' = calls (-) SetToBag({ c })
              /\ c.op \in {"continueWritingChapter", "refineChapterContent"}
              /\ c.id /= ce.selectedChapterId ) =>
                 ce'.suggestion = ce.suggestion ]_vars
(* C26: in a run in which every provider call resolves, every loading flag  *)
(* that is set becomes false again, whether the call gave a success value   *)
(* or a sentinel, and the resolution of a call with a sentinel leaves the   *)
(* Story as it was.                                                         *)
C26_GeneratingEnds ==
  /\ so.isLoading ~> ~so.isLoading
  /\ pm.plotLoading ~> ~pm.plotLoading
  /\ pm.plotRefining ~> ~pm.plotRefining
  /\ pm.subplotsLoading ~> ~pm.subplotsLoading
  /\ (pm.subplotsRefiningId /= NoId) ~> (pm.subplotsRefiningId = NoId)
  /\ cm.isGenerating ~> ~cm.isGenerating
  /\ (cm.generatingImageId /= NoId) ~> (cm.generatingImageId = NoId)
  /\ (cm.refiningCharacterId /= NoId) ~> (cm.refiningCharacterId = NoId)
  /\ ce.isContinuing ~> ~ce.isContinuing
  /\ ce.isRefining ~> ~ce.isRefining
  /\ [][ (last'.op = "resolve" /\ last'.how = "sentinel") =>
            story' = story ]_vars

C26_Witness ==
  /\ last = Op("resolve", "character", "sentinel")
  /\ ~cm.isGenerating
  /\ cm.suggestedCharacter = None
  /\ calls = EmptyBag
  /\ toasts /= << >>
  /\ toasts[Len(toasts)].type = "error"
(* C27: there is no fencing: the answer to a call is stored as the pending  *)
(* suggestion of its surface even when a newer call of the surface has been *)
(* started, so that the suggestion the surface holds after an answer is the *)
(* one of the call that resolved last, and no other.                        *)
C27_LastToResolveHeld ==
  [][ \A c \in BagToSet(calls) :
         ( /\ last'.op = "resolve"
           /\ last'.how = "success"
           /\ last'.slot \in SlotNames
           /\ calls' = calls (-) SetToBag({ c }) ) =>
              \E s \in SlotNames :
                 /\ s = last'.slot
                 /\ Held(s)'
                 /\ Installed(s)' \in ResultsOf(c)
                 /\ \A t \in SurfaceSlots(s) \ { s } : ~Held(t)' ]_vars
(* C28: the notifications shown have pairwise distinct ids, also when two   *)
(* of them were created at the same time; a notification stays, in its      *)
(* place, until it is dismissed; and a dismissal removes exactly one        *)
(* notification.                                                            *)
C28_ToastIds ==
  [][ /\ \A i, j \in 1..Len(toasts') : i /= j => toasts'[i].id /= toasts'[j].id
      /\ Len(toasts') >= Len(toasts) => SubSeq(toasts', 1, Len(toasts)) = toasts
      /\ Len(toasts') < Len(toasts) => Len(toasts') = Len(toasts) - 1 ]_vars
(* C29: in each list of the Story the ids are pairwise distinct; an item    *)
(* leaves its list only by a delete of an item, a delete of the story or a  *)
(* load; and an id that enters a list is a newly minted one, so that the id *)
(* of a deleted item never comes back.                                      *)
C29_Lists == {"subplots", "characters", "chapters"}
C29_List(s, l) == IF l \in DOMAIN s THEN s[l] ELSE << >>

C29_ListIds ==
  [][ LET deletes ==
            \/ \E k \in 1..Len(C29_List(story, "subplots")) : handleDeleteSubplot(k)
            \/ \E k \in 1..Len(C29_List(story, "characters")) : handleDeleteCharacter(k)
            \/ handleDeleteChapter
            \/ \E confirm \in BOOLEAN : handleDeleteStory(confirm)
            \/ last'.op = "load"
      IN  \A l \in C29_Lists :
             LET old == C29_List(story, l)
                 new == C29_List(story', l)
             IN  /\ \A i, j \in 1..Len(new) : i /= j => new[i].id /= new[j].id
                 /\ Ids(old) \ Ids(new) /= {} => deletes
                 /\ last'.op /= "load" => Ids(new) \ Ids(old) \subseteq nextId..(nextId' - 1) ]_vars
(* C30: when the chapter editor is shown and its effects have run, no       *)
(* chapter is selected if the list is empty, and otherwise exactly one      *)
(* chapter of the list is the selected one; a chapter that is added becomes *)
(* the selected one; deleting the selected chapter selects the first of the *)
(* remaining ones; and selecting a chapter in the list leaves the Story as  *)
(* it was.                                                                  *)
C30_Settled ==
  (Alive /\ activeView = "chapters") =>
     IF story.chapters = << >>
     THEN ce.selectedChapterId = NoId
     ELSE Cardinality({ k \in 1..Len(story.chapters) :
                           story.chapters[k].id = ce.selectedChapterId }) = 1

C30_Selection ==
  [][ /\ C30_Settled'
      /\ handleAddChapter =>
            /\ ce'.selectedChapterId = nextId
            /\ story'.chapters[Len(story'.chapters)].id = nextId
      /\ handleDeleteChapter =>
            /\ ce.selectedChapterId \notin Ids(story'.chapters)
            /\ ce'.selectedChapterId =
                  IF Len(story.chapters) > 1
                  THEN (IF story.chapters[1].id = ce.selectedChapterId
                        THEN story.chapters[2].id ELSE story.chapters[1].id)
                  ELSE NoId
      /\ \A k \in 1..MaxChapters :
            ChapterOnClick(k) => story' = story /\ ce'.selectedChapterId = story.chapters[k].id
    ]_vars

C30_Witness ==
  /\ last.session = "selection"
  /\ activeView = "chapters"
  /\ nextId = 3
  /\ Len(story.chapters) = 1
  /\ story.chapters[1].id = 1
  /\ ce.selectedChapterId = 1
(* C31: the mock character generation resolves, for every story context and *)
(* every random choice of the name, with a record whose name, description   *)
(* and imagePrompt are not empty and whose name is not Error; the call is   *)
(* never taken for a failure, and its record becomes the suggestion.        *)
C31_WellFormed(r) ==
  /\ r.name /= ""
  /\ r.description /= ""
  /\ r.imagePrompt /= ""
  /\ r.name /= "Error"

C31_MockCharacter ==
  [][ \A c \in BagToSet(calls) :
         ( /\ c.op = "generateCharacter"
           /\ c.provider = "mock"
           /\ last'.op = "resolve"
           /\ calls' = calls (-) SetToBag({ c }) ) =>
              /\ \A r \in generateCharacter(c.provider) : C31_WellFormed(r)
              /\ \A o \in Outcomes(c.op, c.input, c.provider) :
                    ~o.raised /\ C31_WellFormed(o.value[1])
              /\ last'.how /= "sentinel"
              /\ c.live =>
                    /\ cm'.suggestedCharacter /= None
                    /\ C31_WellFormed(cm'.suggestedCharacter[1]) ]_vars

C31_Witness ==
  /\ last = Op("resolve", "character", "success")
  /\ aiProvider = "mock"
  /\ cm.suggestedCharacter /= None
  /\ cm.suggestedCharacter[1].name = "Mock Kaelen"
  /\ includes(cm.suggestedCharacter[1].imagePrompt, "Kaelen")
(* C32: the suggestion the chapter editor holds belongs to the selected     *)
(* chapter: the answer to a call is installed only when the chapter the     *)
(* call was issued for is the selected one, and as long as a suggestion     *)
(* stays pending the selection stays where it is.                           *)
C32_SuggestionOfSelected ==
  [][ /\ \A c \in BagToSet(calls) :
            ( /\ last'.op = "resolve"
              /\ last'.slot = "chapter"
              /\ calls' = calls (-) SetToBag({ c })
              /\ ce'.suggestion /= None
              /\ ce'.suggestion /= ce.suggestion ) =>
                 c.id = ce'.selectedChapterId
      /\ (activeView = "chapters" /\ activeView' = "chapters" /\ ce.suggestion /= None /\
          ce'.suggestion = ce.suggestion) =>
            ce'.selectedChapterId = ce.selectedChapterId ]_vars
(* C33: no failure sentinel of the provider is written into the Story: no   *)
(* text field of the Story holds a sentinel text, and the batch of subplots *)
(* an accept adds to the Story is not the empty list.                       *)
C33_Texts(s) ==
  { s.overview, s.mainPlot }
  \cup { C29_List(s, "subplots")[k].description : k \in 1..Len(C29_List(s, "subplots")) }
  \cup { C29_List(s, "characters")[k].description : k \in 1..Len(C29_List(s, "characters")) }
  \cup { C29_List(s, "characters")[k].name : k \in 1..Len(C29_List(s, "characters")) }
  \cup { C29_List(s, "chapters")[k].content : k \in 1..Len(C29_List(s, "chapters")) }

C33_SentinelTexts ==
  { FailedOverview, FailedMainPlot, FailedRefinePlot, FailedRefineSubplot,
    FailedRefineCharacter, FailedRefineChapter, FailedContinueChapter,
    ErrorCharacter.description }

C33_NoSentinelInStory ==
  [][ /\ \A t \in C33_Texts(story') : \A f \in C33_SentinelTexts : ~includes(t, f)
      /\ handleAcceptSubplots =>
            (story' /= story => Len(story'.subplots) > Len(story.subplots)) ]_vars
(* C34: a provider call issued before the Story was reset by a confirmed    *)
(* delete or replaced by a load leaves the new Story as it is when it       *)
(* resolves: here, when it resolves right after the reset or the load.      *)
C34_ResetSurvivesResolve ==
  [][ ( /\ \/ last.op = "deleteStory" /\ last.how = "confirmed"
           \/ last.op = "load" /\ last.how = "loaded"
        /\ last'.op = "resolve" ) =>
           story' = story ]_vars
(* C35: a loading indicator is on exactly while a call triggered from its   *)
(* control is outstanding in the mounted component; for the operations on   *)
(* an item (subplot refine, character refine, portrait) the items shown as  *)
(* loading are the items with an outstanding call.                          *)
C35_Outstanding(op) == { c \in BagToSet(calls) : c.op = op /\ c.live }
C35_Items(op) == { c.id : c \in C35_Outstanding(op) }
C35_Shown(id) == IF id = NoId THEN {} ELSE { id }

C35_LoadingMatchesCalls ==
  /\ so.isLoading <=> C35_Outstanding("generateStoryOverview") /= {}
  /\ pm.plotLoading <=> C35_Outstanding("generateMainPlot") /= {}
  /\ pm.plotRefining <=> C35_Outstanding("refineMainPlot") /= {}
  /\ pm.subplotsLoading <=> C35_Outstanding("generateSubplots") /= {}
  /\ cm.isGenerating <=> C35_Outstanding("generateCharacter") /= {}
  /\ ce.isContinuing <=> C35_Outstanding("continueWritingChapter") /= {}
  /\ ce.isRefining <=> C35_Outstanding("refineChapterContent") /= {}
  /\ C35_Shown(pm.subplotsRefiningId) = C35_Items("refineSubplotDescription")
  /\ C35_Shown(cm.refiningCharacterId) = C35_Items("refineCharacterDescription")
  /\ C35_Shown(cm.generatingImageId) = C35_Items("generateCharacterImage")
(* C36: in every reachable state the Story has its six fields, and its      *)
(* subplots, characters and chapters are lists, also after the load of a    *)
(* file that passes the validation.                                         *)
C36_StoryShape ==
  /\ DOMAIN story = DOMAIN initialStory
  /\ \A l \in C29_Lists : DOMAIN story[l] = 1..Len(story[l])
(* C37: a chapter suggestion that is pending was generated from the content *)
(* the selected chapter has now: the answer to a call issued for the        *)
(* selected chapter is installed only if the content of the chapter is      *)
(* still the content that was sent, and an edit of the content drops the    *)
(* suggestion that is pending.                                              *)
C37_SuggestionFromCurrentContent ==
  [][ /\ \A c \in BagToSet(calls) :
            ( /\ last'.op = "resolve"
              /\ last'.slot = "chapter"
              /\ last'.how = "success"
              /\ calls' = calls (-) SetToBag({ c })
              /\ c.id = ce.selectedChapterId
              /\ Alive
              /\ selectedChapter /= None ) =>
                 selectedChapter[1].content = c.input
      /\ ( /\ activeView = "chapters" /\ activeView' = "chapters"
           /\ Alive /\ Alive'
           /\ selectedChapter /= None /\ selectedChapter' /= None
           /\ selectedChapter'[1].id = selectedChapter[1].id
           /\ selectedChapter'[1].content /= selectedChapter[1].content
           /\ last'.op /= "accept" ) =>
              ce'.suggestion = None ]_vars
(* C38: a triggered generation gives exactly one notification: a click      *)
(* whose precondition fails adds one error notification and issues no call; *)
(* a click that issues a call adds none, and the resolution of the call     *)
(* adds exactly one, a success or an error; an accept that is applied adds  *)
(* one success notification, and a discard adds none.                       *)
C38_OneNotification ==
  [][ /\ (last'.op = "trigger" /\ last'.how = "precondition") =>
            AddsOneToast("error") /\ calls' = calls
      /\ (last'.op = "trigger" /\ last'.how /= "precondition") =>
            /\ toasts' = toasts
            /\ BagCardinality(calls') = BagCardinality(calls) + 1
      /\ (last'.op = "resolve") =>
            /\ AddsOneToast("success") \/ AddsOneToast("error")
            /\ BagCardinality(calls') = BagCardinality(calls) - 1
      /\ (last'.op = "accept" /\ last'.how = "applied") => AddsOneToast("success")
      /\ (last'.op = "dismiss") => toasts' = toasts ]_vars

C38_Witness ==
  /\ last = Op("resolve", "chapter", "sentinel")
  /\ calls = EmptyBag
  /\ Len(toasts) = 1
  /\ toasts[1].message = "Failed to continue chapter."
  /\ toasts[1].type = "error"
  /\ ce.suggestion = None
====
